---- MODULE Spec2Model ----
(***************************************************************************)
(* A state-machine model of the wavesim_py core:                           *)
(*   - the iteration driver (anysim.py iterate, state.py State),           *)
(*   - one MaxwellDomain and its slot primitives (wavesim/maxwelldomain.py)*)
(*   - the MultiDomain composite operations and calibration                *)
(*     (helmholtzbase.py HelmholtzBase).                                    *)
(***************************************************************************)
EXTENDS Integers, Sequences, FiniteSets, TLC

(***************************************************************************)
(* Bounds of the model.                                                    *)
(***************************************************************************)
MaxIterations == 3
NPatches == 2
NDomains == 2
DomainLen == 2
MaxOps == 1
MaxV == 2
MaxWrapNorm == 1
MaxGrid == 5
MaxParts == 4
MaxGridOps == 1
MaxShape == 7
MaxTiles == 3
MaxBoundary == 1

(***************************************************************************)
(* PART 1.  The iteration driver.                                          *)
(*                                                                         *)
(* Two calls of iterate (runs 1 and 2) on the same base parameters are     *)
(* kept side by side, so that the State objects they return can be         *)
(* compared.  Spec lets only run 1 move; PairSpec runs the second call     *)
(* after the first has returned.                                           *)
(*                                                                         *)
(* Residual norms are kept as levels: the squared norm, normalized by the  *)
(* squared initial norm.  The subdomains do not overlap, so the level of   *)
(* the full residual (the norm of the sum of the extended subdomain        *)
(* residuals) is the sum of the subdomain levels.                          *)
(***************************************************************************)
VARIABLES
    max_iterations,        \* base.max_iterations
    threshold_residual,    \* base.threshold_residual
    divergence_limit,      \* base.divergence_limit
    pc,                    \* position of each run inside iterate
    i,                     \* loop variable of "for i in range(max_iterations)"
    patch,                 \* position in "for patch in base.domains_iterator"
    t_dict,                \* norm level of t_dict[patch] of this iteration
    residual,              \* the accumulator "residual" of the loop body
    full_residuals,        \* State.full_residuals
    subdomain_residuals,   \* State.subdomain_residuals
    iterations,            \* State.iterations
    should_terminate,      \* State.should_terminate
    reported,              \* the residual printed by State.next when it stops
    executed,              \* number of loop bodies entered (history variable)
    u_version,             \* number of updates of u_dict[patch] (history variable)
    t_version              \* the u_version of each u_dict[patch] that t_dict
                           \* was computed from (history variable)

baseVars == <<max_iterations, threshold_residual, divergence_limit>>

driverVars == <<baseVars, pc, i, patch, t_dict, residual, full_residuals,
                subdomain_residuals, iterations, should_terminate, reported,
                executed, u_version, t_version>>


Runs == {1, 2}
Patches == 1..NPatches
\* levels of the norm of one subdomain's t: zero or not
SubResiduals == {0, 1}
\* levels of the norm of the full residual
Residuals == 0..NPatches
\* nothing has been printed yet
NoReport == 0 - 1

\* StopCondition with the convergence test strict (< for <=)
StopConditionStrict(res, idx, maxit, thr, lim) ==
    \/ res < thr
    \/ res >= lim
    \/ idx >= maxit - 1

\* state.py:43-45, the condition under which State.next stops the run
StopCondition(res, idx, maxit, thr, lim) ==
    \/ res <= thr
    \/ res >= lim
    \/ idx >= maxit - 1

\* IterationsAtStop off by one (the 0-based index for the count)
IterationsAtStopIndex(idx) == idx

\* state.py:49, the iteration count State.next stores when it stops
IterationsAtStop(idx) == idx + 1

\* anysim.py:34, "for i in range(base.max_iterations)": the range has an item idx
InRange(idx, maxit) == idx < maxit

\* numpy's transpose of a 2-D array held as a sequence of rows
Transpose(m) ==
    IF Len(m) = 0 THEN <<>>
    ELSE [c \in 1..Len(m[1]) |-> [rw \in 1..Len(m) |-> m[rw][c]]]

\* state.py:63-65, the residual lists as a 2-D array, transposed when it has
\* fewer rows than columns
FinalizeResiduals(sub) ==
    LET arr == [p \in Patches |-> sub[p]]
    IN  IF Len(arr) < Len(arr[1]) THEN Transpose(arr) ELSE arr

\* anysim.py:18 with State.__init__ (state.py:8-17), at the top of the loop
DriverInit ==
    /\ max_iterations \in 1..MaxIterations
    /\ threshold_residual \in 0..(NPatches - 1)
    /\ divergence_limit \in (threshold_residual + 1)..(NPatches + 1)
    /\ pc = [r \in Runs |-> "for"]
    /\ i = [r \in Runs |-> 0]
    /\ patch = [r \in Runs |-> 1]
    /\ t_dict = [r \in Runs |-> [p \in Patches |-> 0]]
    /\ residual = [r \in Runs |-> 0]
    /\ full_residuals = [r \in Runs |-> <<>>]
    /\ subdomain_residuals = [r \in Runs |-> [p \in Patches |-> <<>>]]
    /\ iterations = [r \in Runs |-> max_iterations]
    /\ should_terminate = [r \in Runs |-> FALSE]
    /\ reported = [r \in Runs |-> NoReport]
    /\ executed = [r \in Runs |-> 0]
    /\ u_version = [r \in Runs |-> [p \in Patches |-> 0]]
    /\ t_version = [r \in Runs |-> [p \in Patches |-> 0]]

\* anysim.py:34-43: the head of the for loop; entering the body resets the
\* accumulator and computes the subdomain fields t_dict of this iteration
ForHead(r) ==
    /\ pc[r] = "for"
    /\ IF InRange(i[r], max_iterations)
       THEN /\ pc' = [pc EXCEPT ![r] = "patch"]
            /\ executed' = [executed EXCEPT ![r] = @ + 1]
            /\ patch' = [patch EXCEPT ![r] = 1]
            /\ residual' = [residual EXCEPT ![r] = 0]
            /\ \E t \in [Patches -> SubResiduals] :
                  t_dict' = [t_dict EXCEPT ![r] = t]
            /\ t_version' = [t_version EXCEPT ![r] = u_version[r]]
       ELSE /\ pc' = [pc EXCEPT ![r] = "finalize"]
            /\ UNCHANGED <<executed, patch, residual, t_dict, t_version>>
    /\ UNCHANGED <<baseVars, i, full_residuals, subdomain_residuals,
                   iterations, should_terminate, reported, u_version>>

\* PatchStep with t_dict of the subdomains still to come computed again from
\* the u that this pass has updated
PatchStepRecomputed(r) ==
    /\ pc[r] = "patch"
    /\ subdomain_residuals' =
           [subdomain_residuals EXCEPT
               ![r][patch[r]] = Append(@, t_dict[r][patch[r]])]
    /\ residual' = [residual EXCEPT ![r] = @ + t_dict[r][patch[r]]]
    /\ u_version' = [u_version EXCEPT ![r][patch[r]] = @ + 1]
    /\ t_version' = [t_version EXCEPT ![r] = u_version'[r]]
    /\ IF patch[r] < NPatches
       THEN /\ patch' = [patch EXCEPT ![r] = @ + 1]
            /\ pc' = pc
       ELSE /\ patch' = patch
            /\ pc' = [pc EXCEPT ![r] = "full"]
    /\ UNCHANGED <<baseVars, i, t_dict, full_residuals, iterations,
                   should_terminate, reported, executed>>

\* PatchStep leaving the loops as soon as the accumulated residual reaches
\* the divergence limit
PatchStepWithBreak(r) ==
    /\ pc[r] = "patch"
    /\ subdomain_residuals' =
           [subdomain_residuals EXCEPT
               ![r][patch[r]] = Append(@, t_dict[r][patch[r]])]
    /\ residual' = [residual EXCEPT ![r] = @ + t_dict[r][patch[r]]]
    /\ u_version' = [u_version EXCEPT ![r][patch[r]] = @ + 1]
    /\ IF residual'[r] >= divergence_limit
       THEN /\ patch' = patch
            /\ pc' = [pc EXCEPT ![r] = "finalize"]
       ELSE IF patch[r] < NPatches
       THEN /\ patch' = [patch EXCEPT ![r] = @ + 1]
            /\ pc' = pc
       ELSE /\ patch' = patch
            /\ pc' = [pc EXCEPT ![r] = "full"]
    /\ UNCHANGED <<baseVars, i, t_dict, full_residuals, iterations,
                   should_terminate, reported, executed, t_version>>

\* anysim.py:44-54 with State.log_subdomain_residual (state.py:19-21): one
\* pass of the loop over the subdomains
PatchStep(r) ==
    /\ pc[r] = "patch"
    /\ subdomain_residuals' =
           [subdomain_residuals EXCEPT
               ![r][patch[r]] = Append(@, t_dict[r][patch[r]])]
    /\ residual' = [residual EXCEPT ![r] = @ + t_dict[r][patch[r]]]
    /\ u_version' = [u_version EXCEPT ![r][patch[r]] = @ + 1]
    /\ IF patch[r] < NPatches
       THEN /\ patch' = [patch EXCEPT ![r] = @ + 1]
            /\ pc' = pc
       ELSE /\ patch' = patch
            /\ pc' = [pc EXCEPT ![r] = "full"]
    /\ UNCHANGED <<baseVars, i, t_dict, full_residuals, iterations,
                   should_terminate, reported, executed, t_version>>

\* anysim.py:56 with State.log_full_residual (state.py:23-25)
LogFullResidual(r) ==
    /\ pc[r] = "full"
    /\ full_residuals' = [full_residuals EXCEPT ![r] = Append(@, residual[r])]
    /\ pc' = [pc EXCEPT ![r] = "next"]
    /\ UNCHANGED <<baseVars, i, patch, t_dict, residual, subdomain_residuals,
                   iterations, should_terminate, reported, executed, u_version,
                   t_version>>

\* anysim.py:57 with State.next (state.py:41-51); full_residuals[i] of the
\* code is entry i+1 of the sequence
StateNext(r) ==
    /\ pc[r] = "next"
    /\ IF StopCondition(full_residuals[r][i[r] + 1], i[r], max_iterations,
                        threshold_residual, divergence_limit)
       THEN /\ should_terminate' = [should_terminate EXCEPT ![r] = TRUE]
            /\ iterations' = [iterations EXCEPT ![r] = IterationsAtStop(i[r])]
            /\ reported' = [reported EXCEPT ![r] = full_residuals[r][i[r] + 1]]
       ELSE UNCHANGED <<should_terminate, iterations, reported>>
    /\ pc' = [pc EXCEPT ![r] = "check"]
    /\ UNCHANGED <<baseVars, i, patch, t_dict, residual, full_residuals,
                   subdomain_residuals, executed, u_version,
                   t_version>>

\* BreakOrContinue with a loop variable that is not advanced
BreakOrContinueStuck(r) ==
    /\ pc[r] = "check"
    /\ executed[r] <= MaxIterations
    /\ IF should_terminate[r]
       THEN pc' = [pc EXCEPT ![r] = "finalize"]
       ELSE pc' = [pc EXCEPT ![r] = "for"]
    /\ UNCHANGED <<baseVars, i, patch, t_dict, residual, full_residuals,
                   subdomain_residuals, iterations, should_terminate,
                   reported, executed, u_version,
                   t_version>>

\* anysim.py:58-59 and the step of the for loop
BreakOrContinue(r) ==
    /\ pc[r] = "check"
    /\ IF should_terminate[r]
       THEN /\ pc' = [pc EXCEPT ![r] = "finalize"]
            /\ i' = i
       ELSE /\ pc' = [pc EXCEPT ![r] = "for"]
            /\ i' = [i EXCEPT ![r] = @ + 1]
    /\ UNCHANGED <<baseVars, patch, t_dict, residual, full_residuals,
                   subdomain_residuals, iterations, should_terminate,
                   reported, executed, u_version,
                   t_version>>

\* anysim.py:61 with State.finalize (state.py:53-67)
Finalize(r) ==
    /\ pc[r] = "finalize"
    /\ subdomain_residuals' =
           [subdomain_residuals EXCEPT ![r] = FinalizeResiduals(@)]
    /\ pc' = [pc EXCEPT ![r] = "done"]
    /\ UNCHANGED <<baseVars, i, patch, t_dict, residual, full_residuals,
                   iterations, should_terminate, reported, executed, u_version,
                   t_version>>

\* anysim.py:10-61, one call of iterate
Iterate(r) ==
    \/ ForHead(r)
    \/ PatchStep(r)
    \/ LogFullResidual(r)
    \/ StateNext(r)
    \/ BreakOrContinue(r)
    \/ Finalize(r)

(***************************************************************************)
(* PART 2.  Fields, slots and the Domain primitives                        *)
(* (wavesim/maxwelldomain.py).                                             *)
(*                                                                         *)
(* The grid has extent along axis 0 only: n_domains = (NDomains, 1, 1) and *)
(* every subdomain has shape (DomainLen, 1, 1), with the polarization axis *)
(* of size 3 behind it.  Axes 1 and 2 are periodic, n_boundary is 1.       *)
(*                                                                         *)
(* Complex numbers are modelled by the field of integers modulo 7, in      *)
(* which sums, products and reciprocals are exact and which has the roots  *)
(* of unity a discrete Fourier transform of length 1, 2 or 3 needs.        *)
(***************************************************************************)
VARIABLES
    x,                          \* x[d][s]: slot s of Domain d (self._x)
    Bscat,                      \* self._Bscat of every Domain
    propagator_kernel,          \* self.propagator_kernel
    inverse_propagator_kernel,  \* self.inverse_propagator_kernel, <<>> is None
    Vwrap,                      \* self.Vwrap[0], <<>> is None
    edges,                      \* self.edges, <<>> is None
    scale,                      \* self.scale
    shift,                      \* self.shift
    active,                     \* self.active
    source,                     \* self._source, <<>> is None
    periodic,                   \* self._periodic
    n_boundary,                 \* self._n_boundary
    op,                         \* the last operation called, with its arguments
    nops                        \* number of operations called so far

domainVars == <<x, Bscat, propagator_kernel, inverse_propagator_kernel, Vwrap,
                edges, scale, shift, active, source, periodic, n_boundary,
                op, nops>>

\* maxwelldomain.py:291, the polarization components
NPol == 3
\* maxwelldomain.py:26, n_slots
NSlots == 2

Domains == 0..(NDomains - 1)
Pixels == 0..(DomainLen - 1)
Pols == 0..(NPol - 1)
Slots == 0..(NSlots - 1)
Faces == 0..5
GridLen == NDomains * DomainLen
GridPixels == 0..(GridLen - 1)

Fld == 0..6
\* the reciprocals of the field
Reciprocal == [a \in 1..6 |-> CHOOSE b \in Fld : (a * b) % 7 = 1]
FInv(a) == Reciprocal[a]

RECURSIVE FPow(_, _)
FPow(a, n) == IF n = 0 THEN 1 ELSE (a * FPow(a, n - 1)) % 7

\* the sum g[0] + ... + g[n-1]
RECURSIVE FSumTo(_, _)
FSumTo(g, n) == IF n = 0 THEN 0 ELSE (FSumTo(g, n - 1) + g[n - 1]) % 7

\* a primitive n-th root of unity
RootOfUnity(n) ==
    CHOOSE w \in 1..6 :
        /\ FPow(w, n) = 1
        /\ \A k \in 1..(n - 1) : FPow(w, k) # 1

\* the matrices of the discrete Fourier transform of length n and of its
\* inverse
DftMatrix(n) ==
    [k \in 0..(n - 1) |-> [j \in 0..(n - 1) |-> FPow(RootOfUnity(n), j * k)]]
IDftMatrix(n) ==
    [j \in 0..(n - 1) |-> [k \in 0..(n - 1) |->
        (Reciprocal[n % 7] * FPow(Reciprocal[RootOfUnity(n)], j * k)) % 7]]
SpaceDft == DftMatrix(DomainLen)
SpaceIDft == IDftMatrix(DomainLen)
PolDft == DftMatrix(NPol)
PolIDft == IDftMatrix(NPol)

\* torch.fft.fftn and torch.fft.ifftn of a 1-D array over 0..n-1, of the
\* length of a subdomain or of the polarization axis
Transform(M, v, n) ==
    [k \in 0..(n - 1) |-> FSumTo([j \in 0..(n - 1) |-> v[j] * M[k][j]], n)]
Dft(v, n) == Transform(IF n = NPol THEN PolDft ELSE SpaceDft, v, n)
IDft(v, n) == Transform(IF n = NPol THEN PolIDft ELSE SpaceIDft, v, n)

\* fftn / ifftn of one polarization component: over the three space axes, of
\* which only axis 0 has more than one point
Fft3(fld, c) == Dft([j \in Pixels |-> fld[j][c]], DomainLen)
IFft3(spec, c) == IDft([k \in Pixels |-> spec[k][c]], DomainLen)

\* fftn / ifftn of a whole slot: over the space axes and the polarization axis
Fft4(fld) ==
    LET sp == [c \in Pols |-> Fft3(fld, c)]
    IN  [k \in Pixels |-> Dft([c \in Pols |-> sp[c][k]], NPol)]
IFft4(spec) ==
    LET sp == [k \in Pixels |-> IDft(spec[k], NPol)]
    IN  [j \in Pixels |-> [c \in Pols |-> IFft3(sp, c)[j]]]

ZeroField == [j \in Pixels |-> [c \in Pols |-> 0]]
\* w * v and v + u, elementwise; the weight w is an integer
VScale(v, w) == [j \in Pixels |-> [c \in Pols |-> (v[j][c] * w) % 7]]
VAdd(v, u) == [j \in Pixels |-> [c \in Pols |-> (v[j][c] + u[j][c]) % 7]]
VSub(v, u) == [j \in Pixels |-> [c \in Pols |-> (v[j][c] - u[j][c]) % 7]]

\* maxwelldomain.py:207-209
DomainClear(X, s) == [X EXCEPT ![s] = ZeroField]

\* maxwelldomain.py:221-223
DomainSet(X, s, data) == [X EXCEPT ![s] = data]

\* DomainMix without the test of the active flag
DomainMixAlways(X, act, wa, a, wb, b, out) ==
    IF wa = 1 THEN [X EXCEPT ![out] = VAdd(X[a], VScale(X[b], wb))]
    ELSE IF wa = 0 THEN [X EXCEPT ![out] = VScale(X[b], wb)]
    ELSE IF wb = 1 THEN [X EXCEPT ![out] = VAdd(X[b], VScale(X[a], wa))]
    ELSE IF wb = 0 THEN [X EXCEPT ![out] = VScale(X[a], wa)]
    ELSE IF wa + wb = 1
         THEN [X EXCEPT ![out] = VAdd(X[a], VScale(VSub(X[b], X[a]), wb))]
    ELSE IF a = out
         THEN LET X1 == [X EXCEPT ![a] = VScale(X[a], wa)]
              IN  [X1 EXCEPT ![a] = VAdd(X1[a], VScale(X1[b], wb))]
    ELSE LET X1 == [X EXCEPT ![out] = VScale(X[b], wb)]
         IN  [X1 EXCEPT ![out] = VAdd(X1[out], VScale(X1[a], wa))]

\* maxwelldomain.py:248-269; X is the list of slots, act the active flag
DomainMix(X, act, wa, a, wb, b, out) ==
    IF ~act THEN X
    ELSE IF wa = 1 THEN [X EXCEPT ![out] = VAdd(X[a], VScale(X[b], wb))]
    ELSE IF wa = 0 THEN [X EXCEPT ![out] = VScale(X[b], wb)]
    ELSE IF wb = 1 THEN [X EXCEPT ![out] = VAdd(X[b], VScale(X[a], wa))]
    ELSE IF wb = 0 THEN [X EXCEPT ![out] = VScale(X[a], wa)]
    ELSE IF wa + wb = 1
         THEN [X EXCEPT ![out] = VAdd(X[a], VScale(VSub(X[b], X[a]), wb))]
    ELSE IF a = out
         THEN LET X1 == [X EXCEPT ![a] = VScale(X[a], wa)]
              IN  [X1 EXCEPT ![a] = VAdd(X1[a], VScale(X1[b], wb))]
    ELSE LET X1 == [X EXCEPT ![out] = VScale(X[b], wb)]
         IN  [X1 EXCEPT ![out] = VAdd(X1[out], VScale(X1[a], wa))]

\* a source handed to set_source: None (<<>>), or a dense or sparse tensor
\* <<t>> with its values on the subdomain (t.data, 0 where a sparse tensor
\* stores nothing) and the number of its stored entries (t.nnz)
\* wavesim/utilities.py is_zero: every value is zero
IsZero(t) == \A j \in Pixels : \A c \in Pols : t.data[j][c] = 0

\* maxwelldomain.py:350-353: len(source.indices()) is the number of rows of
\* the index matrix, one per axis of the tensor
LenIndices(t) == 3

\* DomainSetSource that keeps the source it holds when handed no source
DomainSetSourceKeep(old, src) ==
    IF src = <<>> THEN old
    ELSE IF IsZero(src[1]) THEN old
    ELSE IF src[1].sparse /\ LenIndices(src[1]) = 0 THEN old
    ELSE <<src[1].data>>

\* maxwelldomain.py:343-355; old is self._source before the call, the result
\* self._source after it
DomainSetSource(old, src) ==
    IF src = <<>> THEN <<>>
    ELSE IF IsZero(src[1]) THEN <<>>
    ELSE IF src[1].sparse /\ LenIndices(src[1]) = 0 THEN <<>>
    ELSE <<src[1].data>>

\* maxwelldomain.py:201-205
DomainAddSource(X, act, src, s, w) ==
    IF src # <<>> /\ act
    THEN [X EXCEPT ![s] = VAdd(X[s], VScale(src[1], w))]
    ELSE X

\* maxwelldomain.py:237-246, out = Bscat[..., None] * in
DomainMedium(X, act, B, sin, sout) ==
    IF ~act THEN X
    ELSE [X EXCEPT ![sout] =
             [j \in Pixels |-> [c \in Pols |-> (B[j] * X[sin][j][c]) % 7]]]

\* the edge slices of faces 0 and 1 (maxwelldomain.py:94-101) with
\* n_boundary = 1: the first and the last pixel along axis 0
EdgePixel(e) == IF e % 2 = 0 THEN 0 ELSE DomainLen - 1

\* maxwelldomain.py:393-410; E is self.edges, W is self.Vwrap[0].  Vwrap[1] and
\* Vwrap[2] are None (periodic axes), so faces 2..5 are skipped.  A 1 x 1
\* matrix times the edge slab is the scaled slab.
ComputeCorrections(X, E, W, sin) ==
    [e \in Faces |->
        IF e \div 2 = 0 /\ W # <<>>
        THEN <<[c \in Pols |-> (W[1] * X[sin][EdgePixel(e)][c]) % 7]>>
        ELSE E[e]]

\* ApplyEdge whose first test does not ask for the transfer correction to be
\* missing: with both present only the wrap correction is applied
ApplyEdgeWrapFirst(fld, e, wrap, xfer) ==
    LET px == EdgePixel(e)
    IN  IF wrap # <<>>
        THEN [fld EXCEPT ![px] = [c \in Pols |-> (@[c] + wrap[1][c]) % 7]]
        ELSE IF xfer # <<>>
        THEN [fld EXCEPT ![px] = [c \in Pols |-> (@[c] - xfer[1][c]) % 7]]
        ELSE fld

\* one pass of the loop of maxwelldomain.py:426-435
ApplyEdge(fld, e, wrap, xfer) ==
    LET px == EdgePixel(e)
    IN  IF wrap # <<>> /\ xfer = <<>>
        THEN [fld EXCEPT ![px] = [c \in Pols |-> (@[c] + wrap[1][c]) % 7]]
        ELSE IF xfer # <<>> /\ wrap = <<>>
        THEN [fld EXCEPT ![px] = [c \in Pols |-> (@[c] - xfer[1][c]) % 7]]
        ELSE IF xfer # <<>> /\ wrap # <<>>
        THEN [fld EXCEPT ![px] =
                 [c \in Pols |-> (@[c] + wrap[1][c] - xfer[1][c]) % 7]]
        ELSE fld

RECURSIVE ApplyEdgesFrom(_, _, _, _)
ApplyEdgesFrom(fld, e, wraps, xfers) ==
    IF e > 5 THEN fld
    ELSE ApplyEdgesFrom(ApplyEdge(fld, e, wraps[e], xfers[e]), e + 1,
                        wraps, xfers)

\* maxwelldomain.py:412-435
ApplyCorrections(X, wraps, xfers, s) ==
    [X EXCEPT ![s] = ApplyEdgesFrom(X[s], 0, wraps, xfers)]

\* self._f (maxwelldomain.py:123): the Fourier-space coordinate of bin k along
\* axis c, in the order of torch.fft.fftfreq; axes 1 and 2 have the single
\* bin 0
CoordinatesF(c, k) ==
    IF c # 0 THEN 0
    ELSE IF 2 * k < DomainLen THEN k ELSE (k - DomainLen) % 7

\* maxwelldomain.py:116-118 and 437-455: the un-scaled Laplace kernel,
\* -(px^2 + py^2 + pz^2)
LaplaceKernel == [k \in Pixels |-> (0 - CoordinatesF(0, k) * CoordinatesF(0, k)) % 7]

\* maxwelldomain.py:271-301; K is self.propagator_kernel
DomainPropagator(X, act, K, sc, sh, sin, sout) ==
    IF ~act THEN X
    ELSE LET F == [c \in Pols |-> Fft3(X[sin], c)]
             div == [k \in Pixels |->
                        (sc * FSumTo([c \in Pols |-> CoordinatesF(c, k) * F[c][k]], NPol)
                            * FInv((sc * sh + 1) % 7)) % 7]
             G == [k \in Pixels |-> [c \in Pols |->
                        ((F[c][k] + CoordinatesF(c, k) * div[k]) * K[k]) % 7]]
         IN  [X EXCEPT ![sout] =
                 [j \in Pixels |-> [c \in Pols |-> IFft3(G, c)[j]]]]

\* maxwelldomain.py:328-341; Kinv is self.inverse_propagator_kernel
DomainInversePropagator(X, K, Kinv, sin, sout) ==
    LET F == Fft4(X[sin])
        kern == IF Kinv = <<>> THEN K ELSE Kinv[1]
        G == [k \in Pixels |-> [c \in Pols |-> (F[k][c] * kern[k]) % 7]]
    IN  [X EXCEPT ![sout] = IFft4(G)]

\* helmholtzbase.py:194-233 for a grid that tiles evenly: part d of an array
Partition(data, d) == [j \in Pixels |-> data[d * DomainLen + j]]

\* helmholtzbase.py:158: the tile has NDomains domains along axis 0 and one
\* along axes 1 and 2; TileIndex is the index of Domain d along axis k
TileShape(k) == IF k = 0 THEN NDomains ELSE 1
TileIndex(d, k) == IF k = 0 THEN d ELSE 0

\* the opposite face of the same axis, (1, 0, 3, 2, 5, 4)[e]
OppositeFace(e) == IF e % 2 = 0 THEN e + 1 ELSE e - 1

\* WrapSource without the swap of opposite faces
WrapSourceUnswapped(d, e) == [dom |-> d, face |-> e]

\* helmholtzbase.py:160: the Domain and the face whose slab is the wrap
\* correction of Domain d at face e
WrapSource(d, e) == [dom |-> d, face |-> OppositeFace(e)]

\* TransferSource taking the neighbour around the tile where there is none
TransferSourceAround(d, e) ==
    IF e \div 2 # 0 THEN <<>>
    ELSE IF e % 2 = 0
    THEN <<[dom |-> (d - 1) % NDomains, face |-> e + 1]>>
    ELSE <<[dom |-> (d + 1) % NDomains, face |-> e - 1]>>

\* helmholtzbase.py:163-170: the Domain and the face whose slab is the transfer
\* correction of Domain d at face e, <<>> where the list holds None because
\* there is no neighbour
TransferSource(d, e) ==
    LET k == e \div 2
    IN  IF e % 2 = 0
        THEN IF TileIndex(d, k) > 0
             THEN <<[dom |-> d - 1, face |-> e + 1]>> ELSE <<>>
        ELSE IF TileIndex(d, k) < TileShape(k) - 1
             THEN <<[dom |-> d + 1, face |-> e - 1]>> ELSE <<>>

\* helmholtzbase.py:160 and 163-170: the lists handed to apply_corrections of
\* Domain d, E being the edge buffers of all domains
WrapCorrections(E, d) ==
    [e \in Faces |-> E[WrapSource(d, e).dom][WrapSource(d, e).face]]
TransferCorrections(E, d) ==
    [e \in Faces |->
        IF TransferSource(d, e) = <<>> THEN <<>>
        ELSE E[TransferSource(d, e)[1].dom][TransferSource(d, e)[1].face]]

\* HelmholtzBaseMedium with the local medium applied before the corrections
\* are computed
HelmholtzBaseMediumLocalFirst(XS, ES, sin, sout) ==
    LET X1 == [d \in Domains |-> DomainMedium(XS[d], active[d], Bscat[d], sin, sout)]
        E1 == [d \in Domains |-> ComputeCorrections(X1[d], ES[d], Vwrap[d], sin)]
        wraps(d) == [e \in Faces |-> E1[d][IF e % 2 = 0 THEN e + 1 ELSE e - 1]]
        xfers(d) == [e \in Faces |->
                        IF e = 0 /\ d > 0 THEN E1[d - 1][1]
                        ELSE IF e = 1 /\ d < NDomains - 1 THEN E1[d + 1][0]
                        ELSE <<>>]
    IN  [xs |-> [d \in Domains |-> ApplyCorrections(X1[d], wraps(d), xfers(d), sout)],
         es |-> E1]

\* helmholtzbase.py:145-172; XS and ES are the slots and the edge buffers of
\* all domains.  The result holds the new slots and the new edge buffers.
HelmholtzBaseMedium(XS, ES, sin, sout) ==
    LET E1 == [d \in Domains |-> ComputeCorrections(XS[d], ES[d], Vwrap[d], sin)]
        X1 == [d \in Domains |-> DomainMedium(XS[d], active[d], Bscat[d], sin, sout)]
    IN  [xs |-> [d \in Domains |->
                    ApplyCorrections(X1[d], WrapCorrections(E1, d),
                                     TransferCorrections(E1, d), sout)],
         es |-> E1]

(***************************************************************************)
(* Construction and calibration of the domains.                            *)
(***************************************************************************)
\* the raw scattering potential n^2 k0^2 on the whole grid (input)
RawPotential == [g \in GridPixels |-> (2 * g + 1) % 7]

\* scale and shift for which scale*(L+shift)+1 and scale*shift+1 have a
\* reciprocal
ScaleShift ==
    {ss \in {<<2, 0>>, <<3, 1>>, <<2, 3>>} :
        /\ (ss[1] * ss[2] + 1) % 7 # 0
        /\ \A k \in Pixels : (ss[1] * (LaplaceKernel[k] + ss[2]) + 1) % 7 # 0}

\* maxwelldomain.py:153-168: the response of the un-scaled kernel to a point
\* at the last pixel, left in slot 1, and the 1 x 1 wrap matrix cut from it
ImpulseResponse ==
    LET point == [j \in Pixels |-> IF j = DomainLen - 1 THEN 1 ELSE 0]
        F == Dft(point, DomainLen)
    IN  IDft([k \in Pixels |-> (F[k] * LaplaceKernel[k]) % 7], DomainLen)

\* maxwelldomain.py:83-84: the periodicity a Domain keeps, given the one it
\* was constructed with
EffectivePeriodic(per, nb) == IF nb > 0 THEN per ELSE <<TRUE, TRUE, TRUE>>

\* MakeWrapMatrix for an axis whether periodic or not
MakeWrapMatrixAlways(per, sc) == <<(sc * ImpulseResponse[0]) % 7>>

\* maxwelldomain.py:164-168 and 466-486 with n_boundary = 1, then scaled
\* (line 391)
MakeWrapMatrix(per, sc) ==
    IF per THEN <<>> ELSE <<(sc * ImpulseResponse[0]) % 7>>

\* maxwelldomain.py:130 and 176-177: slot 0 holds the shifted potential, slot 1
\* the impulse response, both in the first polarization component
InitialSlots(d, sh) ==
    [s \in Slots |->
        [j \in Pixels |-> [c \in Pols |->
            IF c # 0 THEN 0
            ELSE IF s = 0 THEN (Partition(RawPotential, d)[j] - sh) % 7
            ELSE IF s = 1 THEN ImpulseResponse[j]
            ELSE 0]]]

\* maxwelldomain.py:364-391, the inverse kernel scale*(L+shift)+1
InverseKernel(sc, sh) ==
    [k \in Pixels |-> (sc * (LaplaceKernel[k] + sh) + 1) % 7]

NoOp == [name |-> "none", wa |-> 0, a |-> 0, wb |-> 0, b |-> 0, out |-> 0, d |-> 0,
         src |-> <<>>]

\* the operators of the domains after construction and calibration
CalibratedOperators ==
    \E ss \in ScaleShift, per \in BOOLEAN, debug \in BOOLEAN, nb \in {0, 1} :
        /\ n_boundary = nb
        /\ periodic = EffectivePeriodic(<<per, TRUE, TRUE>>, nb)
        /\ scale = ss[1]
        /\ shift = ss[2]
        /\ x = [d \in Domains |-> InitialSlots(d, ss[2])]
        /\ Bscat = [d \in Domains |-> [j \in Pixels |->
                       (1 - ss[1] * (Partition(RawPotential, d)[j] - ss[2])) % 7]]
        /\ propagator_kernel =
               [d \in Domains |-> [k \in Pixels |-> FInv(InverseKernel(ss[1], ss[2])[k])]]
        /\ inverse_propagator_kernel =
               [d \in Domains |-> IF debug THEN <<InverseKernel(ss[1], ss[2])>> ELSE <<>>]
        /\ Vwrap = [d \in Domains |->
                       MakeWrapMatrix(EffectivePeriodic(<<per, TRUE, TRUE>>, nb)[1], ss[1])]
        /\ edges = [d \in Domains |-> [e \in Faces |->
                       IF EffectivePeriodic(<<per, TRUE, TRUE>>, nb)[(e \div 2) + 1]
                       THEN <<>> ELSE <<[c \in Pols |-> 0]>>]]

DomainInit ==
    /\ CalibratedOperators
    /\ active = [d \in Domains |-> TRUE]
    /\ source = [d \in Domains |-> <<>>]
    /\ op = NoOp
    /\ nops = 0

\* the domains when only the driver is studied
DomainIdle ==
    /\ x = <<>> /\ Bscat = <<>> /\ propagator_kernel = <<>>
    /\ inverse_propagator_kernel = <<>> /\ Vwrap = <<>> /\ edges = <<>>
    /\ scale = 0 /\ shift = 0 /\ active = <<>> /\ source = <<>>
    /\ periodic = <<>> /\ n_boundary = 0 /\ op = NoOp /\ nops = 0

(***************************************************************************)
(* The operations of the domain interface, called on the calibrated        *)
(* domains (helmholtzbase.py:88-192).                                      *)
(***************************************************************************)
\* fields on the whole grid that a caller stores with set
TestFields ==
    { [g \in GridPixels |-> [c \in Pols |-> IF g = 0 /\ c = 0 THEN 1 ELSE 0]],
      [g \in GridPixels |-> [c \in Pols |-> (g + 2 * c + 1) % 7]],
      [g \in GridPixels |-> [c \in Pols |-> IF c = 0 THEN (3 * g + 1) % 7 ELSE 0]] }

\* weights a caller passes to mix; the branches of mix compare them with 0 and 1
MixWeights == {0 - 1, 0, 1, 2, 3}
\* the pairs of weights the calls of the model use
CalledWeights == {<<2, 3>>, <<1, 0 - 1>>, <<2, 0 - 1>>}

Called(name, wa, a, wb, b, out, d) ==
    /\ nops < MaxOps
    /\ nops' = nops + 1
    /\ op' = [name |-> name, wa |-> wa, a |-> a, wb |-> wb, b |-> b, out |-> out, d |-> d,
              src |-> <<>>]

\* helmholtzbase.py:126-130
Set ==
    \E s \in Slots, data \in TestFields :
        /\ Called("set", 0, s, 0, s, s, 0)
        /\ x' = [d \in Domains |-> DomainSet(x[d], s, Partition(data, d))]
        /\ UNCHANGED <<Bscat, propagator_kernel, inverse_propagator_kernel,
                       Vwrap, edges, scale, shift, active, source,
                       periodic, n_boundary>>

\* sources a caller hands to a domain
DomainSources ==
    { <<>>,
      <<[sparse |-> FALSE, nnz |-> DomainLen * NPol, data |-> ZeroField]>>,
      <<[sparse |-> TRUE, nnz |-> 0, data |-> ZeroField]>>,
      <<[sparse |-> FALSE, nnz |-> DomainLen * NPol,
         data |-> [j \in Pixels |-> [c \in Pols |-> (j + c + 1) % 7]]]>>,
      <<[sparse |-> TRUE, nnz |-> 1,
         data |-> [j \in Pixels |-> [c \in Pols |-> IF j = 0 /\ c = 0 THEN 1 ELSE 0]]]>> }

\* the weights the calls of add_source use
SourceWeights == {1, 0 - 2}

\* maxwelldomain.py:343-355, called on one domain
SetSource ==
    \E d \in Domains, src \in DomainSources :
        /\ nops < MaxOps
        /\ nops' = nops + 1
        /\ op' = [NoOp EXCEPT !.name = "set_source", !.d = d, !.src = src]
        /\ source' = [source EXCEPT ![d] = DomainSetSource(source[d], src)]
        /\ UNCHANGED <<x, Bscat, propagator_kernel, inverse_propagator_kernel,
                       Vwrap, edges, scale, shift, active,
                       periodic, n_boundary>>

\* helmholtzbase.py:95-98
AddSource ==
    \E s \in Slots, w \in SourceWeights :
        /\ Called("add_source", w, s, 0, s, s, 0)
        /\ x' = [d \in Domains |-> DomainAddSource(x[d], active[d], source[d], s, w)]
        /\ UNCHANGED <<Bscat, propagator_kernel, inverse_propagator_kernel,
                       Vwrap, edges, scale, shift, active, source,
                       periodic, n_boundary>>

\* helmholtzbase.py:100-103
Clear ==
    \E s \in Slots :
        /\ Called("clear", 0, s, 0, s, s, 0)
        /\ x' = [d \in Domains |-> DomainClear(x[d], s)]
        /\ UNCHANGED <<Bscat, propagator_kernel, inverse_propagator_kernel,
                       Vwrap, edges, scale, shift, active, source,
                       periodic, n_boundary>>

\* helmholtzbase.py:174-177
Mix ==
    \E w \in CalledWeights, a \in Slots, b \in Slots, out \in Slots :
        /\ Called("mix", w[1], a, w[2], b, out, 0)
        /\ x' = [d \in Domains |-> DomainMix(x[d], active[d], w[1], a, w[2], b, out)]
        /\ UNCHANGED <<Bscat, propagator_kernel, inverse_propagator_kernel,
                       Vwrap, edges, scale, shift, active, source,
                       periodic, n_boundary>>

\* helmholtzbase.py:145-172
Medium ==
    \E sin \in Slots, sout \in Slots :
        /\ Called("medium", 0, sin, 0, sin, sout, 0)
        /\ x' = HelmholtzBaseMedium(x, edges, sin, sout).xs
        /\ edges' = HelmholtzBaseMedium(x, edges, sin, sout).es
        /\ UNCHANGED <<Bscat, propagator_kernel, inverse_propagator_kernel,
                       Vwrap, scale, shift, active, source,
                       periodic, n_boundary>>

\* helmholtzbase.py:179-185
Propagator ==
    \E sin \in Slots, sout \in Slots :
        /\ Called("propagator", 0, sin, 0, sin, sout, 0)
        /\ x' = [d \in Domains |->
                    DomainPropagator(x[d], active[d], propagator_kernel[d],
                                     scale, shift, sin, sout)]
        /\ UNCHANGED <<Bscat, propagator_kernel, inverse_propagator_kernel,
                       Vwrap, edges, scale, shift, active, source,
                       periodic, n_boundary>>

\* InversePropagator inverting the stored kernel in place before multiplying
InversePropagatorInPlace ==
    \E d \in Domains, sin \in Slots, sout \in Slots :
        /\ Called("inverse_propagator", 0, sin, 0, sin, sout, d)
        /\ propagator_kernel' =
               [propagator_kernel EXCEPT ![d] = [k \in Pixels |-> FInv(@[k])]]
        /\ x' = [x EXCEPT ![d] =
                    DomainInversePropagator(x[d], propagator_kernel'[d],
                                            inverse_propagator_kernel[d], sin, sout)]
        /\ UNCHANGED <<Bscat, inverse_propagator_kernel,
                       Vwrap, edges, scale, shift, active, source,
                       periodic, n_boundary>>

\* maxwelldomain.py:328-341, called on one domain
InversePropagator ==
    \E d \in Domains, sin \in Slots, sout \in Slots :
        /\ Called("inverse_propagator", 0, sin, 0, sin, sout, d)
        /\ x' = [x EXCEPT ![d] =
                    DomainInversePropagator(x[d], propagator_kernel[d],
                                            inverse_propagator_kernel[d], sin, sout)]
        /\ UNCHANGED <<Bscat, propagator_kernel, inverse_propagator_kernel,
                       Vwrap, edges, scale, shift, active, source,
                       periodic, n_boundary>>

\* helmholtzbase.py:105-124 with maxwelldomain.py:211-219: the slots are read
\* into a new array and nothing of a domain is assigned
Get ==
    \E s \in Slots :
        /\ Called("get", 0, s, 0, s, s, 0)
        /\ UNCHANGED <<x, Bscat, propagator_kernel, inverse_propagator_kernel,
                       Vwrap, edges, scale, shift, active, source,
                       periodic, n_boundary>>

\* helmholtzbase.py:132-143 with maxwelldomain.py:225-235: the slots are read
\* and a number is returned
InnerProduct ==
    \E a \in Slots, b \in Slots :
        /\ Called("inner_product", 0, a, 0, b, a, 0)
        /\ UNCHANGED <<x, Bscat, propagator_kernel, inverse_propagator_kernel,
                       Vwrap, edges, scale, shift, active, source,
                       periodic, n_boundary>>

DomainNext ==
    \/ Set
    \/ Get
    \/ InnerProduct
    \/ Clear
    \/ Mix
    \/ Medium
    \/ Propagator
    \/ InversePropagator
    \/ SetSource
    \/ AddSource

(***************************************************************************)
(* PART 3.  Calibration of the domains by HelmholtzBase.__init__           *)
(* (helmholtzbase.py:65-84), in magnitudes.                                *)
(*                                                                         *)
(* The raw potential is real and takes even integer values, so that the    *)
(* centre of its range is an integer.  A Domain enters with the bounds of  *)
(* its potential (V_bounds) and the norm of its wrap matrices (Vwrap_norm, *)
(* 0 when every axis is periodic).  |scale| is the fraction num / den; a   *)
(* den of 0 stands for the division by zero of line 82.                    *)
(***************************************************************************)
VARIABLES
    V_bounds,           \* V_bounds[d] = <<r_min, r_max>> of Domain d
    domain_Vwrap_norm,  \* domain.Vwrap_norm of Domain d
    center,             \* center
    Vscat_norm,         \* Vscat_norm
    Vwrap_norm,         \* Vwrap_norm
    V_norm,             \* V_norm[d]: what initialize_shift returned to Domain d
    base_scale,         \* |self.scale| of HelmholtzBase
    domain_scale,       \* |domain.scale| of Domain d, <<>> before initialize_scale
    cal_pc,             \* position in __init__
    cal_d,              \* the domain the current loop is at
    x0_bounds,          \* bounds of what slot 0 of Domain d holds
    shift_calls,        \* number of calls of initialize_shift on Domain d
    scale_calls         \* number of calls of initialize_scale on Domain d

calibVars == <<V_bounds, domain_Vwrap_norm, center, Vscat_norm, Vwrap_norm,
               V_norm, base_scale, domain_scale, cal_pc, cal_d, x0_bounds,
               shift_calls, scale_calls>>

Abs(n) == IF n < 0 THEN 0 - n ELSE n
Maximum(m, n) == IF m > n THEN m ELSE n
SetMin(S) == CHOOSE m \in S : \A n \in S : m <= n
SetMax(S) == CHOOSE m \in S : \A n \in S : m >= n

\* the values the raw potential takes
PotentialValues == {2 * k : k \in 0..MaxV}
Bounds == {b \in PotentialValues \X PotentialValues : b[1] <= b[2]}

\* maxwelldomain.py:357-362: the largest |V - shift| of a real potential within
\* its bounds, which attains both bounds
InitializeShift(b, sh) == Maximum(Abs(b[1] - sh), Abs(b[2] - sh))

\* helmholtzbase.py:82, the numerator 1.0 of |scale|, in hundredths
ScaleNum == 100

\* helmholtzbase.py:62-63 passes no stand_alone to Domain, whose constructor
\* (wavesim/domain.py) is not among the sources; by the specification a Domain
\* of a MultiDomain leaves its calibration to the MultiDomain
DomainStandAlone == FALSE

CalibInit ==
    /\ V_bounds \in [Domains -> Bounds]
    /\ domain_Vwrap_norm \in [Domains -> 0..MaxWrapNorm]
    /\ center = 0
    /\ Vscat_norm = 0
    /\ Vwrap_norm = 0
    /\ V_norm = [d \in Domains |-> 0]
    /\ base_scale = <<>>
    /\ domain_scale = [d \in Domains |-> <<>>]
    /\ x0_bounds = V_bounds
    /\ shift_calls = [d \in Domains |-> 0]
    /\ scale_calls = [d \in Domains |-> 0]
    /\ cal_pc = "construct"
    /\ cal_d = 0

\* no HelmholtzBase under construction
CalibIdle ==
    /\ V_bounds = <<>> /\ domain_Vwrap_norm = <<>> /\ center = 0
    /\ Vscat_norm = 0 /\ Vwrap_norm = 0 /\ V_norm = <<>> /\ base_scale = <<>>
    /\ domain_scale = <<>> /\ cal_pc = "idle" /\ cal_d = 0
    /\ x0_bounds = <<>> /\ shift_calls = <<>> /\ scale_calls = <<>>

\* a pair of bounds moved by -sh
ShiftBounds(b, sh) == <<b[1] - sh, b[2] - sh>>

\* maxwelldomain.py:146-148: the scale a stand-alone Domain with potential
\* bounds b gives itself, 0.95j / V_norm, in hundredths as base_scale
StandAloneScale(b) ==
    [num |-> 95, den |-> 100 * InitializeShift(b, (b[1] + b[2]) \div 2)]

\* helmholtzbase.py:60-63, one pass of the loop, with maxwelldomain.py:143-148:
\* a stand-alone Domain shifts by the centre of its own potential and scales
\* by 0.95j / V_norm
CalibConstructDomain ==
    /\ cal_pc = "construct"
    /\ IF DomainStandAlone
       THEN LET own == (V_bounds[cal_d][1] + V_bounds[cal_d][2]) \div 2
            IN  /\ x0_bounds' = [x0_bounds EXCEPT ![cal_d] = ShiftBounds(@, own)]
                /\ shift_calls' = [shift_calls EXCEPT ![cal_d] = @ + 1]
                /\ scale_calls' = [scale_calls EXCEPT ![cal_d] = @ + 1]
                /\ domain_scale' =
                       [domain_scale EXCEPT ![cal_d] = StandAloneScale(V_bounds[cal_d])]
       ELSE UNCHANGED <<x0_bounds, shift_calls, scale_calls, domain_scale>>
    /\ IF cal_d < NDomains - 1
       THEN cal_d' = cal_d + 1 /\ cal_pc' = "construct"
       ELSE cal_d' = 0 /\ cal_pc' = "center"
    /\ UNCHANGED <<V_bounds, domain_Vwrap_norm, center, Vscat_norm, Vwrap_norm,
                   V_norm, base_scale>>

\* helmholtzbase.py:65-75
ComputeCenter ==
    /\ cal_pc = "center"
    /\ center' = (SetMin({V_bounds[d][1] : d \in Domains})
                    + SetMax({V_bounds[d][2] : d \in Domains})) \div 2
    /\ Vscat_norm' = 0
    /\ Vwrap_norm' = 0
    /\ cal_d' = 0
    /\ cal_pc' = "shift"
    /\ UNCHANGED <<V_bounds, domain_Vwrap_norm, V_norm, base_scale, domain_scale,
                   x0_bounds, shift_calls, scale_calls>>

\* ShiftDomain calibrating in one phase: the scale is handed to the Domain in
\* the pass of the loop that shifts it
ShiftDomainAndScale ==
    /\ cal_pc = "shift"
    /\ V_norm' = [V_norm EXCEPT ![cal_d] = InitializeShift(x0_bounds[cal_d], center)]
    /\ x0_bounds' = [x0_bounds EXCEPT ![cal_d] = ShiftBounds(@, center)]
    /\ shift_calls' = [shift_calls EXCEPT ![cal_d] = @ + 1]
    /\ scale_calls' = [scale_calls EXCEPT ![cal_d] = @ + 1]
    /\ Vscat_norm' = Maximum(Vscat_norm, V_norm'[cal_d])
    /\ Vwrap_norm' = Maximum(Vwrap_norm, domain_Vwrap_norm[cal_d])
    /\ IF cal_d < NDomains - 1
       THEN cal_d' = cal_d + 1 /\ cal_pc' = "shift"
       ELSE cal_d' = 0 /\ cal_pc' = "scale"
    /\ UNCHANGED <<V_bounds, domain_Vwrap_norm, center, base_scale, domain_scale>>

\* helmholtzbase.py:76-78, one pass of the loop
ShiftDomain ==
    /\ cal_pc = "shift"
    /\ V_norm' = [V_norm EXCEPT ![cal_d] = InitializeShift(x0_bounds[cal_d], center)]
    /\ x0_bounds' = [x0_bounds EXCEPT ![cal_d] = ShiftBounds(@, center)]
    /\ shift_calls' = [shift_calls EXCEPT ![cal_d] = @ + 1]
    /\ Vscat_norm' = Maximum(Vscat_norm, V_norm'[cal_d])
    /\ Vwrap_norm' = Maximum(Vwrap_norm, domain_Vwrap_norm[cal_d])
    /\ IF cal_d < NDomains - 1
       THEN cal_d' = cal_d + 1 /\ cal_pc' = "shift"
       ELSE cal_d' = 0 /\ cal_pc' = "scale"
    /\ UNCHANGED <<V_bounds, domain_Vwrap_norm, center, base_scale, domain_scale,
                   scale_calls>>

\* helmholtzbase.py:82; den is in hundredths as num is
ComputeScale ==
    /\ cal_pc = "scale"
    /\ base_scale' = [num |-> ScaleNum, den |-> 100 * (Vscat_norm + Vwrap_norm)]
    /\ cal_pc' = "initialize_scale"
    /\ cal_d' = 0
    /\ UNCHANGED <<V_bounds, domain_Vwrap_norm, center, Vscat_norm, Vwrap_norm,
                   V_norm, domain_scale, x0_bounds, shift_calls, scale_calls>>

\* helmholtzbase.py:83-84, one pass of the loop
ScaleDomain ==
    /\ cal_pc = "initialize_scale"
    /\ domain_scale' = [domain_scale EXCEPT ![cal_d] = base_scale]
    /\ scale_calls' = [scale_calls EXCEPT ![cal_d] = @ + 1]
    /\ IF cal_d < NDomains - 1
       THEN cal_d' = cal_d + 1 /\ cal_pc' = "initialize_scale"
       ELSE cal_d' = 0 /\ cal_pc' = "calibrated"
    /\ UNCHANGED <<V_bounds, domain_Vwrap_norm, center, Vscat_norm, Vwrap_norm,
                   V_norm, base_scale, x0_bounds, shift_calls>>

CalibNext ==
    \/ CalibConstructDomain
    \/ ComputeCenter
    \/ ShiftDomain
    \/ ComputeScale
    \/ ScaleDomain

(***************************************************************************)
(* PART 4.  partition, set, get and set_source of HelmholtzBase on a grid  *)
(* whose length need not be a multiple of the number of domains            *)
(* (helmholtzbase.py:105-130 and 187-233).                                 *)
(*                                                                         *)
(* The grid has g_shape points along axis 0 and one point along axes 1 and *)
(* 2; it is split in g_ndomains domains along axis 0.  An array is a       *)
(* function on 0..len-1 (<< >> when empty, as every function with an empty *)
(* domain is).  A coalesced COO-sparse array is the set of its stored      *)
(* entries <<index, value>>.  None is << >>, a piece p is <<p>>.            *)
(***************************************************************************)
VARIABLES
    g_shape,     \* self.shape[0]
    g_ndomains,  \* self.domains.shape[0]
    g_x,         \* g_x[d][s]: slot s of domain d
    g_source,    \* what set_source handed to domain d
    g_op,        \* the last operation called, with its arguments
    g_nops       \* number of operations called so far

gridVars == <<g_shape, g_ndomains, g_x, g_source, g_op, g_nops>>

Minimum(m, n) == IF m < n THEN m ELSE n

\* helmholtzbase.py:210, np.ceil(shape / n_domains)
DomainSize(N, n) == (N + n - 1) \div n
\* helmholtzbase.py:212-213
BoxStart(d, N, n) == d * DomainSize(N, n)
BoxEnd(d, N, n) == Minimum(BoxStart(d, N, n) + DomainSize(N, n), N + 1)

\* the grid points of array[start:end], a slice of an array of length N
IndexBox(d, N, n) == {g \in 0..(N - 1) : BoxStart(d, N, n) <= g /\ g < BoxEnd(d, N, n)}

\* helmholtzbase.py:220-221, array[start0:end0] of a dense array of length N
DensePiece(array, d, N, n) ==
    LET lo == Minimum(BoxStart(d, N, n), N)
        hi == Minimum(BoxEnd(d, N, n), N)
    IN  [k \in 0..(hi - lo - 1) |-> array[lo + k]]

\* SparsePiece with the entries left at their index in the whole array
SparsePieceNoRebase(entries, d, N, n) ==
    LET mask == {e \in entries : e[1] >= BoxStart(d, N, n) /\ e[1] < BoxEnd(d, N, n)}
    IN  IF mask = {} THEN <<>>
        ELSE <<[entries |-> mask,
                size |-> BoxEnd(d, N, n) - BoxStart(d, N, n)]>>

\* helmholtzbase.py:222-232, the piece of a sparse array: None, or the
\* re-based entries and the size of the sub-tensor
SparsePiece(entries, d, N, n) ==
    LET mask == {e \in entries : e[1] >= BoxStart(d, N, n) /\ e[1] < BoxEnd(d, N, n)}
        domain_indices == {<<e[1] - BoxStart(d, N, n), e[2]>> : e \in mask}
    IN  IF domain_indices = {} THEN <<>>
        ELSE <<[entries |-> domain_indices,
                size |-> BoxEnd(d, N, n) - BoxStart(d, N, n)]>>

\* helmholtzbase.py:194-233
PartitionDense(array, N, n) == [d \in 0..(n - 1) |-> DensePiece(array, d, N, n)]
PartitionSparse(entries, N, n) == [d \in 0..(n - 1) |-> SparsePiece(entries, d, N, n)]

ArrayLen(arr) == Cardinality(DOMAIN arr)

\* helmholtzbase.py:112-123: where the data of domain d is put, pos[0]
RECURSIVE GatherPos(_, _, _)
GatherPos(X, s, d) ==
    IF d = 0 THEN 0 ELSE GatherPos(X, s, d - 1) + ArrayLen(X[d - 1][s])

\* HelmholtzBaseGet with pos[0] never advanced
HelmholtzBaseGetNoAdvance(X, s, N, n) ==
    [g \in 0..(N - 1) |->
        IF \E d \in 0..(n - 1) : g < ArrayLen(X[d][s])
        THEN LET d == CHOOSE e \in 0..(n - 1) :
                          /\ g < ArrayLen(X[e][s])
                          /\ \A e2 \in (e + 1)..(n - 1) : ~(g < ArrayLen(X[e2][s]))
             IN  X[d][s][g]
        ELSE 0]

\* helmholtzbase.py:105-124: the zero array of the shape of the grid with the
\* data of every domain written at its position, the later domain winning
HelmholtzBaseGet(X, s, N, n) ==
    [g \in 0..(N - 1) |->
        IF \E d \in 0..(n - 1) : GatherPos(X, s, d) <= g
                                   /\ g < GatherPos(X, s, d) + ArrayLen(X[d][s])
        THEN LET d == CHOOSE e \in 0..(n - 1) :
                          /\ GatherPos(X, s, e) <= g
                          /\ g < GatherPos(X, s, e) + ArrayLen(X[e][s])
                          /\ \A e2 \in (e + 1)..(n - 1) :
                                 ~(GatherPos(X, s, e2) <= g
                                   /\ g < GatherPos(X, s, e2) + ArrayLen(X[e2][s]))
             IN  X[d][s][g - GatherPos(X, s, d)]
        ELSE 0]

\* helmholtzbase.py:55-62: the refractive index map of the grid (input)
GridPotential(N) == [g \in 0..(N - 1) |-> g + 1]

GridNoOp == [name |-> "none", slot |-> 0, data |-> <<>>]

GridInit ==
    /\ g_shape \in 1..MaxGrid
    /\ g_ndomains \in 1..Minimum(MaxParts, g_shape)
    /\ g_x = [d \in 0..(g_ndomains - 1) |-> [s \in Slots |->
                 IF s = 0
                 THEN DensePiece(GridPotential(g_shape), d, g_shape, g_ndomains)
                 ELSE [k \in DOMAIN DensePiece(GridPotential(g_shape), d, g_shape, g_ndomains) |-> 0]]]
    /\ g_source = [d \in 0..(g_ndomains - 1) |-> <<>>]
    /\ g_op = GridNoOp
    /\ g_nops = 0

\* no grid under study
GridIdle ==
    /\ g_shape = 1 /\ g_ndomains = 1 /\ g_x = <<>> /\ g_source = <<>>
    /\ g_op = GridNoOp /\ g_nops = 0

\* arrays of the shape of the grid a caller passes
GridArrays(N) ==
    { [g \in 0..(N - 1) |-> g + 1],
      [g \in 0..(N - 1) |-> N - g],
      [g \in 0..(N - 1) |-> 1 + (g % 2)] }
\* coalesced sparse arrays of the shape of the grid: at most two stored entries
SparseArrays(N) ==
    {{<<g, g + 1>> : g \in G} : G \in {H \in SUBSET (0..(N - 1)) : Cardinality(H) <= 2}}

GridCalled(name, slot, data) ==
    /\ g_nops < MaxGridOps
    /\ g_nops' = g_nops + 1
    /\ g_op' = [name |-> name, slot |-> slot, data |-> data]

\* helmholtzbase.py:126-130 with maxwelldomain.py:221-223
GridSet ==
    \E s \in Slots, data \in GridArrays(g_shape) :
        /\ GridCalled("set", s, data)
        /\ g_x' = [d \in 0..(g_ndomains - 1) |->
                      [g_x[d] EXCEPT ![s] = PartitionDense(data, g_shape, g_ndomains)[d]]]
        /\ UNCHANGED <<g_shape, g_ndomains, g_source>>

\* helmholtzbase.py:187-190 with a sparse source; the domain is handed its piece
GridSetSource ==
    \E entries \in SparseArrays(g_shape) :
        /\ GridCalled("set_source", 0, entries)
        /\ g_source' = PartitionSparse(entries, g_shape, g_ndomains)
        /\ UNCHANGED <<g_shape, g_ndomains, g_x>>

GridNext ==
    \/ GridSet
    \/ GridSetSource

(***************************************************************************)
(* PART 5.  The checks of the constructors (helmholtzbase.py:36-62,        *)
(* maxwelldomain.py:72-130).  Axes 1 and 2 have one point and are          *)
(* periodic; the refractive index has c_shape points along axis 0.         *)
(***************************************************************************)
VARIABLES
    c_ndim,       \* refractive_index.ndim
    c_ntuple,     \* len(n_domains)
    c_shape,      \* refractive_index.shape[0]
    c_n,          \* n_domains[0]
    c_nboundary,  \* n_boundary
    c_periodic,   \* periodic[0]
    c_pc,         \* position in HelmholtzBase.__init__
    c_d,          \* the domain the loop of lines 59-62 is at
    c_domains,    \* number of Domain objects constructed
    c_buffers,    \* number of Domains that allocated their slots and edges
    c_error       \* the exception raised, "" when none

ctorVars == <<c_ndim, c_ntuple, c_shape, c_n, c_nboundary, c_periodic, c_pc,
              c_d, c_domains, c_buffers, c_error>>

CtorInit ==
    /\ c_ndim \in {2, 3}
    /\ c_ntuple \in {2, 3}
    /\ c_shape \in 1..MaxShape
    /\ c_n \in 1..Minimum(MaxTiles, c_shape)
    /\ c_nboundary \in 0..MaxBoundary
    /\ c_periodic \in BOOLEAN
    /\ c_pc = "validate"
    /\ c_d = 0
    /\ c_domains = 0
    /\ c_buffers = 0
    /\ c_error = ""

\* no HelmholtzBase under construction
CtorIdle ==
    /\ c_ndim = 3 /\ c_ntuple = 3 /\ c_shape = 1 /\ c_n = 1 /\ c_nboundary = 0
    /\ c_periodic = TRUE /\ c_pc = "idle" /\ c_d = 0 /\ c_domains = 0
    /\ c_buffers = 0 /\ c_error = ""

\* helmholtzbase.py:54, n_boundary > shape / n_domains // 2 and not periodic
BaseBoundaryTooLarge(nb, N, n, per) == nb > (N \div n) \div 2 /\ ~per

\* maxwelldomain.py:78, n_boundary > 0.5 * shape and not periodic
DomainBoundaryTooLarge(nb, L, per) == 2 * nb > L /\ ~per

\* helmholtzbase.py:36-55
Validate ==
    /\ c_pc = "validate"
    /\ IF c_ndim # 3 \/ c_ntuple # 3
          \/ BaseBoundaryTooLarge(c_nboundary, c_shape, c_n, c_periodic)
       THEN c_error' = "ValueError" /\ c_pc' = "raised"
       ELSE c_error' = c_error /\ c_pc' = "construct"
    /\ UNCHANGED <<c_ndim, c_ntuple, c_shape, c_n, c_nboundary, c_periodic,
                   c_d, c_domains, c_buffers>>

\* helmholtzbase.py:58-62 with maxwelldomain.py:72-130, one pass of the loop:
\* the Domain checks its slab and then allocates its slots and edges
ConstructDomain ==
    /\ c_pc = "construct"
    /\ IF NSlots < 2
          \/ DomainBoundaryTooLarge(c_nboundary,
                 ArrayLen(DensePiece(GridPotential(c_shape), c_d, c_shape, c_n)),
                 c_periodic)
       THEN /\ c_error' = "ValueError"
            /\ c_pc' = "raised"
            /\ UNCHANGED <<c_d, c_domains, c_buffers>>
       ELSE /\ c_buffers' = c_buffers + 1
            /\ c_domains' = c_domains + 1
            /\ c_error' = c_error
            /\ IF c_d < c_n - 1
               THEN c_d' = c_d + 1 /\ c_pc' = "construct"
               ELSE c_d' = c_d /\ c_pc' = "constructed"
    /\ UNCHANGED <<c_ndim, c_ntuple, c_shape, c_n, c_nboundary, c_periodic>>

CtorNext ==
    \/ Validate
    \/ ConstructDomain

(***************************************************************************)
(* PART 6.  HelmholtzBase.medium step by step (helmholtzbase.py:145-172):  *)
(* the three loops over the domains, on the calibrated domains of Part 2.  *)
(***************************************************************************)
VARIABLES
    m_pc,           \* position in medium: "call", "compute", "medium", "apply"
    m_d,            \* the domain the current loop is at
    m_in,           \* slot_in
    m_out,          \* slot_out
    m_call,         \* number of the call of medium, from 1
    m_x0,           \* the slots of all domains when the call was made
    m_e0,           \* the edge buffers of all domains when the call was made
    edge_call,      \* the call in which compute_corrections last ran on Domain d
    local_call,     \* the call in which the local medium last ran on Domain d
    apply_call,     \* the call in which apply_corrections last ran on Domain d
    m_wraps,        \* wrap_corrections last handed to Domain d
    m_xfers,        \* transfer_corrections last handed to Domain d
    read_calls      \* the calls that produced the slabs Domain d was last handed

mediumVars == <<m_pc, m_d, m_in, m_out, m_call, m_x0, m_e0, edge_call,
                local_call, apply_call, m_wraps, m_xfers, read_calls>>

MaxCalls == 2

NoCorrections == [e \in Faces |-> <<>>]

MediumInit ==
    /\ m_pc = "call" /\ m_d = 0 /\ m_in = 0 /\ m_out = 0 /\ m_call = 0
    /\ m_x0 = x /\ m_e0 = edges
    /\ edge_call = [d \in Domains |-> 0]
    /\ local_call = [d \in Domains |-> 0]
    /\ apply_call = [d \in Domains |-> 0]
    /\ m_wraps = [d \in Domains |-> NoCorrections]
    /\ m_xfers = [d \in Domains |-> NoCorrections]
    /\ read_calls = [d \in Domains |-> {}]

\* medium is not being called
MediumIdle ==
    /\ m_pc = "idle" /\ m_d = 0 /\ m_in = 0 /\ m_out = 0 /\ m_call = 0
    /\ m_x0 = <<>> /\ m_e0 = <<>> /\ edge_call = <<>> /\ local_call = <<>>
    /\ apply_call = <<>> /\ m_wraps = <<>> /\ m_xfers = <<>> /\ read_calls = <<>>

\* the step of "for domain in self.domains.flat" and what follows the loop
NextDomain(after) ==
    IF m_d < NDomains - 1
    THEN m_d' = m_d + 1 /\ m_pc' = m_pc
    ELSE m_d' = 0 /\ m_pc' = after

\* helmholtzbase.py:145, the call with its arguments
MediumCall ==
    /\ m_pc = "call"
    /\ m_call < MaxCalls
    /\ \E sin \in Slots, sout \in Slots : m_in' = sin /\ m_out' = sout
    /\ m_call' = m_call + 1
    /\ m_x0' = x
    /\ m_e0' = edges
    /\ m_pc' = "compute"
    /\ m_d' = 0
    /\ UNCHANGED <<domainVars, edge_call, local_call, apply_call, m_wraps,
                   m_xfers, read_calls>>

\* helmholtzbase.py:148, one element of the list
MediumComputeCorrections ==
    /\ m_pc = "compute"
    /\ edges' = [edges EXCEPT ![m_d] =
                    ComputeCorrections(x[m_d], @, Vwrap[m_d], m_in)]
    /\ edge_call' = [edge_call EXCEPT ![m_d] = m_call]
    /\ NextDomain("medium")
    /\ UNCHANGED <<x, Bscat, propagator_kernel, inverse_propagator_kernel, Vwrap,
                   scale, shift, active, source, periodic, n_boundary, op, nops>>
    /\ UNCHANGED <<m_in, m_out, m_call, m_x0, m_e0, local_call, apply_call,
                   m_wraps, m_xfers, read_calls>>

\* the calls that wrote the slabs of the lists handed to Domain d
SlabCalls(d) ==
    {edge_call[WrapSource(d, e).dom] :
        e \in {f \in Faces : WrapCorrections(edges, d)[f] # <<>>}}
    \cup {edge_call[TransferSource(d, e)[1].dom] :
        e \in {f \in Faces : TransferCorrections(edges, d)[f] # <<>>}}

\* helmholtzbase.py:157-172, one pass of the loop
MediumApplyCorrections ==
    /\ m_pc = "apply"
    /\ m_wraps' = [m_wraps EXCEPT ![m_d] = WrapCorrections(edges, m_d)]
    /\ m_xfers' = [m_xfers EXCEPT ![m_d] = TransferCorrections(edges, m_d)]
    /\ read_calls' = [read_calls EXCEPT ![m_d] = SlabCalls(m_d)]
    /\ x' = [x EXCEPT ![m_d] =
                ApplyCorrections(@, WrapCorrections(edges, m_d),
                                 TransferCorrections(edges, m_d), m_out)]
    /\ apply_call' = [apply_call EXCEPT ![m_d] = m_call]
    /\ NextDomain("call")
    /\ UNCHANGED <<Bscat, propagator_kernel, inverse_propagator_kernel, Vwrap,
                   edges, scale, shift, active, source, periodic, n_boundary,
                   op, nops>>
    /\ UNCHANGED <<m_in, m_out, m_call, m_x0, m_e0, edge_call, local_call>>

\* MediumLocal with the corrections of a Domain applied in the same pass
MediumLocalThenApply ==
    /\ m_pc = "medium"
    /\ m_wraps' = [m_wraps EXCEPT ![m_d] = WrapCorrections(edges, m_d)]
    /\ m_xfers' = [m_xfers EXCEPT ![m_d] = TransferCorrections(edges, m_d)]
    /\ read_calls' = [read_calls EXCEPT ![m_d] = SlabCalls(m_d)]
    /\ x' = [x EXCEPT ![m_d] =
                ApplyCorrections(
                    DomainMedium(@, active[m_d], Bscat[m_d], m_in, m_out),
                    WrapCorrections(edges, m_d),
                    TransferCorrections(edges, m_d), m_out)]
    /\ local_call' = [local_call EXCEPT ![m_d] = m_call]
    /\ apply_call' = [apply_call EXCEPT ![m_d] = m_call]
    /\ NextDomain("call")
    /\ UNCHANGED <<Bscat, propagator_kernel, inverse_propagator_kernel, Vwrap,
                   edges, scale, shift, active, source, periodic, n_boundary,
                   op, nops>>
    /\ UNCHANGED <<m_in, m_out, m_call, m_x0, m_e0, edge_call>>

\* helmholtzbase.py:151-152, one pass of the loop
MediumLocal ==
    /\ m_pc = "medium"
    /\ x' = [x EXCEPT ![m_d] =
                DomainMedium(@, active[m_d], Bscat[m_d], m_in, m_out)]
    /\ local_call' = [local_call EXCEPT ![m_d] = m_call]
    /\ NextDomain("apply")
    /\ UNCHANGED <<Bscat, propagator_kernel, inverse_propagator_kernel, Vwrap,
                   edges, scale, shift, active, source, periodic, n_boundary,
                   op, nops>>
    /\ UNCHANGED <<m_in, m_out, m_call, m_x0, m_e0, edge_call, apply_call,
                   m_wraps, m_xfers, read_calls>>

MediumNext ==
    \/ MediumCall
    \/ MediumComputeCorrections
    \/ MediumLocal
    \/ MediumApplyCorrections

(***************************************************************************)
(* PART 7.  The primitives of a Domain called one by one, on domains of    *)
(* which some are inactive (maxwelldomain.py:188, 201-301, 393-435).       *)
(***************************************************************************)
VARIABLES
    corr            \* the lists last handed to apply_corrections

callVars == <<corr>>

NoLists == [wrap |-> NoCorrections, xfer |-> NoCorrections]

\* slabs a caller hands to apply_corrections
SlabA == <<[c \in Pols |-> c + 1]>>
SlabB == <<[c \in Pols |-> (3 * c + 2) % 7]>>

\* lists of corrections for the faces of axis 0; axes 1 and 2 are periodic and
\* their entries are None
Corrections(low, high) ==
    [e \in Faces |-> IF e = 0 THEN low ELSE IF e = 1 THEN high ELSE <<>>]

\* the pairs of lists the calls of the model use: at a face the wrap correction
\* alone, the transfer correction alone, both, neither
CorrectionLists ==
    { [wrap |-> Corrections(SlabA, <<>>), xfer |-> Corrections(<<>>, SlabB)],
      [wrap |-> Corrections(SlabA, SlabB), xfer |-> Corrections(SlabB, SlabB)],
      [wrap |-> Corrections(<<>>, SlabB), xfer |-> Corrections(SlabA, <<>>)],
      NoLists }

\* the source every Domain holds
HeldSource == <<[j \in Pixels |-> [c \in Pols |-> (j + c + 1) % 7]]>>

\* the active flags a caller has set (self.active, maxwelldomain.py:188): all
\* domains active, or all but the first
ActiveFlags == { [d \in Domains |-> TRUE], [d \in Domains |-> d # 0] }

CallInit ==
    /\ CalibratedOperators
    /\ active \in ActiveFlags
    /\ source = [d \in Domains |-> HeldSource]
    /\ op = NoOp
    /\ nops = 0
    /\ corr = NoLists

CallIdle == corr = <<>>

\* maxwelldomain.py:412-435, called on one domain
ApplyCorrectionsCall ==
    \E d \in Domains, s \in Slots, lists \in CorrectionLists :
        /\ Called("apply_corrections", 0, s, 0, s, s, d)
        /\ corr' = lists
        /\ x' = [x EXCEPT ![d] = ApplyCorrections(@, lists.wrap, lists.xfer, s)]
        /\ UNCHANGED <<Bscat, propagator_kernel, inverse_propagator_kernel,
                       Vwrap, edges, scale, shift, active, source,
                       periodic, n_boundary>>

\* maxwelldomain.py:393-410, called on one domain
ComputeCorrectionsCall ==
    \E d \in Domains, s \in Slots :
        /\ Called("compute_corrections", 0, s, 0, s, s, d)
        /\ edges' = [edges EXCEPT ![d] = ComputeCorrections(x[d], @, Vwrap[d], s)]
        /\ UNCHANGED <<x, Bscat, propagator_kernel, inverse_propagator_kernel,
                       Vwrap, scale, shift, active, source,
                       periodic, n_boundary, corr>>

\* maxwelldomain.py:237-246, called on one domain
LocalMedium ==
    \E d \in Domains, sin \in Slots, sout \in Slots :
        /\ Called("local_medium", 0, sin, 0, sin, sout, d)
        /\ x' = [x EXCEPT ![d] = DomainMedium(@, active[d], Bscat[d], sin, sout)]
        /\ UNCHANGED <<Bscat, propagator_kernel, inverse_propagator_kernel,
                       Vwrap, edges, scale, shift, active, source,
                       periodic, n_boundary, corr>>

CallNext ==
    \/ ApplyCorrectionsCall
    \/ ComputeCorrectionsCall
    \/ LocalMedium
    \/ Mix /\ UNCHANGED corr
    \/ Propagator /\ UNCHANGED corr
    \/ AddSource /\ UNCHANGED corr

(***************************************************************************)
(* PART 8.  One pass of the iteration written with the primitives of the   *)
(* domain interface (helmholtzbase.py:86-190), on domains with three       *)
(* slots: u in slot 0, the temporaries in slots 1 and 2.                   *)
(***************************************************************************)
VARIABLES
    sch_pc,         \* the step of the schedule that is next, from 1
    sx,             \* sx[d][s]: slot s of Domain d, s in 0..2
    sch_u,          \* slot 0 of every Domain when the pass began
    sch_alpha,      \* the step size alpha
    sch_r2          \* what inner_product returned, <<>> before it has

scheduleVars == <<sch_pc, sx, sch_u, sch_alpha, sch_r2>>

ScheduleSlots == 0..2
\* step sizes; the model has integer weights
Alphas == {1, 2}

\* maxwelldomain.py:234: vdot conjugates its first argument; the field of the
\* model has no conjugation but the identity
Conj(a) == a

\* maxwelldomain.py:225-235
DomainInnerProduct(X, a, b) ==
    FSumTo([j \in Pixels |->
               FSumTo([c \in Pols |-> (Conj(X[a][j][c]) * X[b][j][c]) % 7], NPol)],
           DomainLen)

\* helmholtzbase.py:132-143
HelmholtzBaseInnerProduct(XS, a, b) ==
    FSumTo([d \in Domains |-> DomainInnerProduct(XS[d], a, b)], NDomains)

Step(name, wa, a, wb, b, out) ==
    [name |-> name, wa |-> wa, a |-> a, wb |-> wb, b |-> b, out |-> out]

\* ScheduleOf with the difference u - tmp written over tmp
ScheduleOverTmp(alpha) ==
    << Step("clear", 0, 1, 0, 1, 1),
       Step("add_source", 1, 1, 0, 1, 1),
       Step("medium", 0, 0, 0, 0, 2),
       Step("mix", 1, 1, 1, 2, 1),
       Step("propagator", 0, 1, 0, 1, 1),
       Step("mix", 1, 0, 0 - 1, 1, 1),
       Step("medium", 0, 2, 0, 2, 1),
       Step("inner_product", 0, 1, 0, 1, 1),
       Step("mix", 1, 0, 0 - alpha, 1, 0) >>

\* the slot schedule of one pass: clear(1); add_source(1, 1); medium(0, 2);
\* mix(1, 1, 1, 2, 1); propagator(1, 1); mix(1, 0, -1, 1, 2); medium(2, 1);
\* inner_product(1, 1); mix(1, 0, -alpha, 1, 0)
ScheduleOf(alpha) ==
    << Step("clear", 0, 1, 0, 1, 1),
       Step("add_source", 1, 1, 0, 1, 1),
       Step("medium", 0, 0, 0, 0, 2),
       Step("mix", 1, 1, 1, 2, 1),
       Step("propagator", 0, 1, 0, 1, 1),
       Step("mix", 1, 0, 0 - 1, 1, 2),
       Step("medium", 0, 2, 0, 2, 1),
       Step("inner_product", 0, 1, 0, 1, 1),
       Step("mix", 1, 0, 0 - alpha, 1, 0) >>

\* what the temporaries hold before the pass
Leftovers ==
    { ZeroField, [j \in Pixels |-> [c \in Pols |-> (2 * j + c + 3) % 7]] }

ScheduleInit ==
    /\ CalibratedOperators
    /\ active = [d \in Domains |-> TRUE]
    /\ \E src \in {<<>>, HeldSource} : source = [d \in Domains |-> src]
    /\ op = NoOp
    /\ nops = 0
    /\ sch_pc = 1
    /\ sch_alpha \in Alphas
    /\ sch_r2 = <<>>
    /\ \E u \in TestFields, left \in Leftovers :
           sx = [d \in Domains |->
                    [s \in ScheduleSlots |-> IF s = 0 THEN Partition(u, d) ELSE left]]
    /\ sch_u = [d \in Domains |-> sx[d][0]]

ScheduleIdle ==
    /\ sch_pc = 0 /\ sx = <<>> /\ sch_u = <<>> /\ sch_alpha = 0 /\ sch_r2 = <<>>

\* the slots of all domains after the call st of the domain interface
\* (helmholtzbase.py:95-103 and 174-185)
Performed(XS, st) ==
    [d \in Domains |->
        IF st.name = "clear" THEN DomainClear(XS[d], st.a)
        ELSE IF st.name = "add_source"
        THEN DomainAddSource(XS[d], active[d], source[d], st.a, st.wa)
        ELSE IF st.name = "mix"
        THEN DomainMix(XS[d], active[d], st.wa, st.a, st.wb, st.b, st.out)
        ELSE IF st.name = "propagator"
        THEN DomainPropagator(XS[d], active[d], propagator_kernel[d],
                              scale, shift, st.a, st.out)
        ELSE XS[d]]

\* the next call of the schedule
ScheduleStep ==
    /\ sch_pc \in 1..Len(ScheduleOf(sch_alpha))
    /\ LET st == ScheduleOf(sch_alpha)[sch_pc]
       IN  /\ IF st.name = "medium"
              THEN /\ sx' = HelmholtzBaseMedium(sx, edges, st.a, st.out).xs
                   /\ edges' = HelmholtzBaseMedium(sx, edges, st.a, st.out).es
              ELSE /\ sx' = Performed(sx, st)
                   /\ edges' = edges
           /\ sch_r2' = IF st.name = "inner_product"
                        THEN <<HelmholtzBaseInnerProduct(sx, st.a, st.b)>>
                        ELSE sch_r2
    /\ sch_pc' = sch_pc + 1
    /\ UNCHANGED <<x, Bscat, propagator_kernel, inverse_propagator_kernel, Vwrap,
                   scale, shift, active, source, periodic, n_boundary, op, nops,
                   sch_u, sch_alpha>>

ScheduleNext == ScheduleStep

(***************************************************************************)
(* Specifications.                                                         *)
(***************************************************************************)
\* the variables of Part 6 and after
extraVars == <<mediumVars, callVars, scheduleVars>>

ExtraIdle == MediumIdle /\ CallIdle /\ ScheduleIdle

vars == <<driverVars, domainVars, calibVars, gridVars, ctorVars, extraVars>>

\* the driver before iterate is called
DriverIdle ==
    /\ max_iterations = 1
    /\ threshold_residual = 0
    /\ divergence_limit = 1
    /\ pc = [r \in Runs |-> "for"]
    /\ i = [r \in Runs |-> 0]
    /\ patch = [r \in Runs |-> 1]
    /\ t_dict = [r \in Runs |-> [p \in Patches |-> 0]]
    /\ residual = [r \in Runs |-> 0]
    /\ full_residuals = [r \in Runs |-> <<>>]
    /\ subdomain_residuals = [r \in Runs |-> [p \in Patches |-> <<>>]]
    /\ iterations = [r \in Runs |-> max_iterations]
    /\ should_terminate = [r \in Runs |-> FALSE]
    /\ reported = [r \in Runs |-> NoReport]
    /\ executed = [r \in Runs |-> 0]
    /\ u_version = [r \in Runs |-> [p \in Patches |-> 0]]
    /\ t_version = [r \in Runs |-> [p \in Patches |-> 0]]

Init ==
    DriverInit /\ DomainIdle /\ CalibIdle /\ GridIdle /\ CtorIdle /\ ExtraIdle

Next == Iterate(1) /\ UNCHANGED <<domainVars, calibVars, gridVars, ctorVars, extraVars>>

Spec == Init /\ [][Next]_vars

\* the single thread of control always takes its next step
FairSpec == Spec /\ WF_vars(Next)

\* a second call of iterate, made when the first has returned
PairNext ==
    \/ Iterate(1)
          /\ UNCHANGED <<domainVars, calibVars, gridVars, ctorVars, extraVars>>
    \/ pc[1] = "done" /\ Iterate(2)
          /\ UNCHANGED <<domainVars, calibVars, gridVars, ctorVars, extraVars>>

PairSpec == Init /\ [][PairNext]_vars

\* the operations of the domain interface in any order
MultiInit ==
    DriverIdle /\ DomainInit /\ CalibIdle /\ GridIdle /\ CtorIdle /\ ExtraIdle

MultiNext == DomainNext /\ UNCHANGED <<driverVars, calibVars, gridVars, ctorVars, extraVars>>

MultiSpec == MultiInit /\ [][MultiNext]_vars

\* the construction of a HelmholtzBase
CalibSpecInit ==
    DriverIdle /\ DomainIdle /\ CalibInit /\ GridIdle /\ CtorIdle /\ ExtraIdle

CalibSpecNext == CalibNext /\ UNCHANGED <<driverVars, domainVars, gridVars, ctorVars, extraVars>>

CalibSpec == CalibSpecInit /\ [][CalibSpecNext]_vars

\* set and set_source on a grid of any length
GridSpecInit ==
    DriverIdle /\ DomainIdle /\ CalibIdle /\ GridInit /\ CtorIdle /\ ExtraIdle

GridSpecNext == GridNext /\ UNCHANGED <<driverVars, domainVars, calibVars, ctorVars, extraVars>>

GridSpec == GridSpecInit /\ [][GridSpecNext]_vars

\* the checks of the constructors
CtorSpecInit ==
    DriverIdle /\ DomainIdle /\ CalibIdle /\ GridIdle /\ CtorInit /\ ExtraIdle

CtorSpecNext == CtorNext /\ UNCHANGED <<driverVars, domainVars, calibVars, gridVars, extraVars>>

CtorSpec == CtorSpecInit /\ [][CtorSpecNext]_vars

\* one or more calls of HelmholtzBase.medium, step by step
MediumSpecInit ==
    /\ DriverIdle /\ DomainInit /\ CalibIdle /\ GridIdle /\ CtorIdle
    /\ MediumInit /\ CallIdle /\ ScheduleIdle

MediumSpecNext ==
    MediumNext /\ UNCHANGED <<driverVars, calibVars, gridVars, ctorVars, callVars,
                             scheduleVars>>

MediumSpec == MediumSpecInit /\ [][MediumSpecNext]_vars

\* single calls of the primitives of a Domain
CallSpecInit ==
    /\ DriverIdle /\ CalibIdle /\ GridIdle /\ CtorIdle /\ MediumIdle
    /\ ScheduleIdle /\ CallInit

CallSpecNext ==
    CallNext /\ UNCHANGED <<driverVars, calibVars, gridVars, ctorVars, mediumVars,
                           scheduleVars>>

CallSpec == CallSpecInit /\ [][CallSpecNext]_vars

\* one pass of the slot schedule
ScheduleSpecInit ==
    /\ DriverIdle /\ CalibIdle /\ GridIdle /\ CtorIdle /\ MediumIdle
    /\ CallIdle /\ ScheduleInit

ScheduleSpecNext ==
    ScheduleNext /\ UNCHANGED <<driverVars, calibVars, gridVars, ctorVars,
                               mediumVars, callVars>>

ScheduleSpec == ScheduleSpecInit /\ [][ScheduleSpecNext]_vars

(***************************************************************************)
(* Properties of the driver.                                               *)
(***************************************************************************)
\* the residual logged by the iteration that run r has just evaluated
LastResidual(r) == full_residuals[r][Len(full_residuals[r])]

\* C1: after iteration i, State.next sets should_terminate exactly when the
\* residual of that iteration is <= threshold_residual or >= divergence_limit
\* or i >= max_iterations - 1; otherwise should_terminate stays False and the
\* loop goes on to iteration i+1 (so inside the loop every earlier iteration
\* was one that did not stop).
C1_NextStopsExactly ==
    \A r \in Runs :
        /\ pc[r] = "check" =>
              /\ Len(full_residuals[r]) = i[r] + 1
              /\ should_terminate[r] <=>
                    \/ LastResidual(r) <= threshold_residual
                    \/ LastResidual(r) >= divergence_limit
                    \/ i[r] >= max_iterations - 1
        /\ pc[r] \in {"for", "patch", "full", "next"} =>
              /\ ~should_terminate[r]
              /\ \A j \in 1..i[r] :
                    /\ full_residuals[r][j] > threshold_residual
                    /\ full_residuals[r][j] < divergence_limit
                    /\ j - 1 < max_iterations - 1
        /\ pc[r] \in {"for", "patch", "full"} => Len(full_residuals[r]) = i[r]

\* C1 witness: State.next has stopped run 1 on divergence, before the last
\* permitted iteration and after an iteration that did not stop
C1_Witness ==
    /\ pc[1] = "check"
    /\ should_terminate[1]
    /\ i[1] >= 1
    /\ i[1] < max_iterations - 1
    /\ LastResidual(1) >= divergence_limit

\* C2: iterate terminates, after at most max_iterations loop iterations,
\* whatever the residuals are.
C2_Terminates ==
    /\ <>(pc[1] = "done")
    /\ [](executed[1] <= max_iterations)

\* C2 witness: run 1 has returned after max_iterations iterations, none of
\* which reached the threshold or the divergence limit
C2_Witness ==
    /\ pc[1] = "done"
    /\ max_iterations >= 2
    /\ executed[1] = max_iterations
    /\ \A j \in 1..Len(full_residuals[1]) :
          /\ full_residuals[1][j] > threshold_residual
          /\ full_residuals[1][j] < divergence_limit

\* the stop reasons of a returned run
Diverged(r) == pc[r] = "done" /\ LastResidual(r) >= divergence_limit
Converged(r) == pc[r] = "done" /\ LastResidual(r) <= threshold_residual
Exhausted(r) == pc[r] = "done" /\ ~Diverged(r) /\ ~Converged(r)

\* the flags of the State object that iterate returns (state.py:14-15)
Flags(r) == <<should_terminate[r], iterations[r]>>

\* C3: a run stopped by divergence returns with a divergence flag: its flags
\* differ from those of every run that stopped for another reason.
C3_DivergenceFlag ==
    (Diverged(1) /\ pc[2] = "done" /\ ~Diverged(2)) => Flags(1) # Flags(2)

\* C4: at return from iterate, State.iterations is the number of loop
\* iterations executed, the full residual history and every subdomain's
\* history have that many entries, and the residual reported last is the one
\* logged by the final iteration.
C4_CountsAgree ==
    \A r \in Runs :
        /\ pc[r] \in {"finalize", "done"} =>
              /\ iterations[r] = executed[r]
              /\ Len(full_residuals[r]) = iterations[r]
              /\ reported[r] = full_residuals[r][iterations[r]]
        /\ pc[r] = "finalize" =>
              \A p \in Patches : Len(subdomain_residuals[r][p]) = iterations[r]
        /\ pc[r] = "done" =>
              LET arr == subdomain_residuals[r]
              IN  \/ /\ Len(arr) = NPatches
                     /\ \A k \in 1..Len(arr) : Len(arr[k]) = iterations[r]
                  \/ /\ Len(arr) = iterations[r]
                     /\ \A k \in 1..Len(arr) : Len(arr[k]) = NPatches

\* C4 witness: run 1 has returned, stopped in its second iteration while a
\* third was permitted
C4_Witness ==
    /\ pc[1] = "done"
    /\ iterations[1] = 2
    /\ max_iterations > 2
(***************************************************************************)
(* Properties of the calibration.                                          *)
(***************************************************************************)
\* C6: after calibration, for every Domain, |scale| * (max|V_raw - center| +
\* Vwrap_norm) is strictly less than 1.
C6_ScaledNormBelowOne ==
    cal_pc = "calibrated" =>
        \A d \in Domains :
            /\ domain_scale[d].den > 0
            /\ domain_scale[d].num * (V_norm[d] + domain_Vwrap_norm[d])
                   < domain_scale[d].den

\* C17: calibration sets |scale| = 0.95 / (Vscat_norm + Vwrap_norm), with
\* Vscat_norm the largest value initialize_shift(center) returned to a Domain and
\* Vwrap_norm the largest Vwrap_norm of a Domain, and every Domain is handed
\* this scale.
C17_ScaleHasMargin ==
    cal_pc = "calibrated" =>
        /\ base_scale.num = 95
        /\ base_scale.den = 100 * (SetMax({V_norm[d] : d \in Domains})
                                     + SetMax({domain_Vwrap_norm[d] : d \in Domains}))
        /\ \A d \in Domains : domain_scale[d] = base_scale

C19_OperatorsImmutable ==
    [][UNCHANGED <<Bscat, propagator_kernel, Vwrap, shift, scale>>]_vars

\* an inverse propagator has acted on a calibrated Domain and changed a slot
C19_Witness ==
    /\ op.name = "inverse_propagator"
    /\ x[op.d][op.out] # InitialSlots(op.d, shift)[op.out]

\* every iteration the run has entered has updated all subdomains and logged
\* its full residual
IterationComplete(r) ==
    /\ Len(full_residuals[r]) = executed[r]
    /\ \A p \in Patches : Len(subdomain_residuals[r][p]) = executed[r]

\* C20: should_terminate is set only by State.next, called after the full
\* residual of the iteration was logged and with every subdomain updated, and
\* the loop is left only with every entered iteration complete: there is no
\* stop between two steps of one iteration.
C20_StopsOnlyBetweenIterations ==
    [][/\ should_terminate'[1] # should_terminate[1] =>
              pc[1] = "next" /\ IterationComplete(1)
       /\ (pc'[1] = "finalize" /\ pc[1] # "finalize") =>
              pc[1] \in {"check", "for"} /\ IterationComplete(1)]_vars

\* the run has stopped after its second iteration
C20_Witness ==
    /\ pc[1] = "finalize"
    /\ should_terminate[1]
    /\ executed[1] = 2
    /\ IterationComplete(1)

(***************************************************************************)
(* Properties of the Domain primitives.                                    *)
(***************************************************************************)
\* what Domain d holds after propagator(sin, sout), inverse_propagator(sin, sout)
PropagatorOf(d, X, sin, sout) ==
    DomainPropagator(X, active[d], propagator_kernel[d], scale, shift, sin, sout)
InversePropagatorOf(d, X, sin, sout) ==
    DomainInversePropagator(X, propagator_kernel[d], inverse_propagator_kernel[d],
                            sin, sout)

\* C7: on every calibrated Domain and for every content x of a slot s,
\* inverse_propagator(s, t) followed by propagator(t, t) leaves x in slot t, and
\* so does propagator(s, t) followed by inverse_propagator(t, t), for t = s and
\* for t # s.
C7_PropagatorRoundTrip ==
    \A d \in Domains, s \in Slots, t \in Slots :
        /\ PropagatorOf(d, InversePropagatorOf(d, x[d], s, t), t, t)[t] = x[d][s]
        /\ InversePropagatorOf(d, PropagatorOf(d, x[d], s, t), t, t)[t] = x[d][s]

\* the weighted sum wa*A + wb*B
WeightedSum(A, wa, B, wb) == VAdd(VScale(A, wa), VScale(B, wb))

\* C8: mix(wa, a, wb, b, out) on an active Domain leaves wa*A + wb*B in slot
\* out, A and B being the contents of slots a and b before the call, for all
\* weights and all a, b, out; every other slot is unchanged.
C8_MixIsWeightedSum ==
    \A d \in Domains, wa \in MixWeights, wb \in MixWeights,
       a \in Slots, b \in Slots, out \in Slots :
        active[d] =>
            LET Y == DomainMix(x[d], active[d], wa, a, wb, b, out)
            IN  /\ Y[out] = WeightedSum(x[d][a], wa, x[d][b], wb)
                /\ \A s \in Slots \ {out} : Y[s] = x[d][s]

\* C9: from the same state, mix(wa, a, wb, b, out) and mix(wb, b, wa, a, out)
\* leave the same contents in every slot, for all weights and all a, b, out.
C9_MixCommutes ==
    \A d \in Domains, wa \in MixWeights, wb \in MixWeights,
       a \in Slots, b \in Slots, out \in Slots :
        DomainMix(x[d], active[d], wa, a, wb, b, out)
            = DomainMix(x[d], active[d], wb, b, wa, a, out)

\* C10: medium(s, s) leaves in slot s of every Domain what medium(s, t) with
\* t # s leaves in slot t from the same state.
C10_MediumInPlace ==
    \A s \in Slots, t \in Slots, d \in Domains :
        t # s =>
            HelmholtzBaseMedium(x, edges, s, s).xs[d][s]
                = HelmholtzBaseMedium(x, edges, s, t).xs[d][t]

\* medium(s, s) has been called on domains that have wrap matrices, and it
\* computed a correction that is not zero for every domain
C10_Witness ==
    /\ op.name = "medium"
    /\ op.a = op.out
    /\ \A d \in Domains :
        /\ Vwrap[d] # <<>>
        /\ Vwrap[d][1] # 0
        /\ \E e \in {0, 1} : \E c \in Pols : edges[d][e][1][c] # 0
        /\ \E j \in Pixels : Bscat[d][j] # 1

(***************************************************************************)
(* Properties of partition, set and get.                                   *)
(***************************************************************************)
\* C11: the index boxes of partition are pairwise disjoint, their union is
\* the whole grid, and every subdomain but the last has ceil(N / n_domains)
\* points.
C11_PartitionTiles ==
    LET N == g_shape
        n == g_ndomains
    IN  /\ \A d \in 0..(n - 1), e \in 0..(n - 1) :
               d # e => IndexBox(d, N, n) \cap IndexBox(e, N, n) = {}
        /\ UNION {IndexBox(d, N, n) : d \in 0..(n - 1)} = 0..(N - 1)
        /\ \A d \in 0..(n - 2) :
               /\ Cardinality(IndexBox(d, N, n)) = DomainSize(N, n)
               /\ \A s \in Slots : ArrayLen(g_x[d][s]) = DomainSize(N, n)

\* C12: set_source with a sparse array hands every stored entry to exactly one
\* domain, the one whose index box holds the index, at the index minus the
\* start of the box and with its value; a domain whose box holds no stored
\* entry is handed None.
C12_SparsePartition ==
    g_op.name = "set_source" =>
        LET N == g_shape
            n == g_ndomains
        IN  /\ \A e \in g_op.data :
                   \E d \in 0..(n - 1) :
                       /\ e[1] \in IndexBox(d, N, n)
                       /\ g_source[d] # <<>>
                       /\ <<e[1] - BoxStart(d, N, n), e[2]>> \in g_source[d][1].entries
                       /\ \A d2 \in 0..(n - 1) \ {d} :
                              g_source[d2] # <<>> =>
                                  \A f \in g_source[d2][1].entries :
                                      f[1] + BoxStart(d2, N, n) # e[1]
            /\ \A d \in 0..(n - 1) :
                   IF \E e \in g_op.data : e[1] \in IndexBox(d, N, n)
                   THEN /\ g_source[d] # <<>>
                        /\ \A f \in g_source[d][1].entries :
                               <<f[1] + BoxStart(d, N, n), f[2]>> \in g_op.data
                   ELSE g_source[d] = <<>>

\* set_source has split two stored entries over two domains of a grid that
\* also has a domain without entry
C12_Witness ==
    /\ g_op.name = "set_source"
    /\ Cardinality(g_op.data) = 2
    /\ g_shape % g_ndomains # 0
    /\ \E d \in 0..(g_ndomains - 1) : g_source[d] = <<>>
    /\ \E d \in 1..(g_ndomains - 1) : g_source[d] # <<>>
    /\ Cardinality({d \in 0..(g_ndomains - 1) : g_source[d] # <<>>}) = 2

\* C13: get(slot) after set(slot, x) returns x at every grid position, and set
\* changes no other slot.
C13_SetThenGet ==
    [][g_op'.name = "set" =>
        /\ HelmholtzBaseGet(g_x', g_op'.slot, g_shape, g_ndomains) = g_op'.data
        /\ \A d \in 0..(g_ndomains - 1) : \A s \in Slots \ {g_op'.slot} :
               g_x'[d][s] = g_x[d][s]]_vars

\* set has stored an array with pairwise different values on a grid whose
\* length is not a multiple of the number of domains
C13_Witness ==
    /\ g_op.name = "set"
    /\ g_ndomains > 1
    /\ g_shape % g_ndomains # 0
    /\ \A g \in DOMAIN g_op.data : \A h \in DOMAIN g_op.data :
           g # h => g_op.data[g] # g_op.data[h]

(***************************************************************************)
(* Properties of the constructors.                                         *)
(***************************************************************************)
\* the configuration errors: a map that is not 3-D, a tuple of the wrong
\* length, too few slots, or an n_boundary larger than half the length of a
\* subdomain along a non-periodic axis
BadConfiguration ==
    \/ c_ndim # 3
    \/ c_ntuple # 3
    \/ NSlots < 2
    \/ /\ ~c_periodic
       /\ \E d \in 0..(c_n - 1) :
              2 * c_nboundary > Cardinality(IndexBox(d, c_shape, c_n))

\* C14: a construction with a configuration error ends with a ValueError, and
\* no Domain is constructed and no slot or edge buffer allocated before it.
C14_FailsBeforeAllocation ==
    (BadConfiguration /\ c_pc # "idle") =>
        /\ c_domains = 0
        /\ c_buffers = 0
        /\ c_pc \in {"raised", "constructed"} => c_error = "ValueError"

(***************************************************************************)
(* Properties of the source.                                               *)
(***************************************************************************)
\* the sources that are None, all zero, or sparse without entries
EmptySources == {src \in DomainSources : src = <<>> \/ IsZero(src[1]) \/ src[1].nnz = 0}

\* C15: after set_source with a source that is None, all zero or sparse
\* without entries, the Domain holds no source, whatever it held before, and
\* add_source(s, w) then leaves every slot unchanged; after set_source with
\* another source, add_source(s, w) on an active Domain adds w times the source
\* to slot s and leaves the other slots unchanged.
C15_SourceIgnoredIfZero ==
    \A d \in Domains, src \in DomainSources, s \in Slots, w \in SourceWeights :
        LET held == DomainSetSource(source[d], src)
            Y == DomainAddSource(x[d], active[d], held, s, w)
        IN  /\ src \in EmptySources => held = <<>> /\ Y = x[d]
            /\ (src \notin EmptySources /\ active[d]) =>
                   /\ Y[s] = VAdd(x[d][s], VScale(src[1].data, w))
                   /\ \A t \in Slots \ {s} : Y[t] = x[d][t]
            /\ (op.name = "set_source" /\ op.d = d /\ op.src = src) => source[d] = held

\* set_source has stored a source that is not zero in a Domain
C15_Witness ==
    /\ op.name = "set_source"
    /\ op.src \notin EmptySources
    /\ source[op.d] # <<>>

(***************************************************************************)
(* Properties of the periodic axes.                                        *)
(***************************************************************************)
\* what medium(sin, sout) leaves in slot sout of Domain d, and what the medium
\* of the Domain alone leaves there
MediumOf(d, sin, sout) == HelmholtzBaseMedium(x, edges, sin, sout).xs[d][sout]
LocalMediumOf(d, sin, sout) == DomainMedium(x[d], active[d], Bscat[d], sin, sout)[sout]

\* C16: along a periodic axis, and along every axis when n_boundary = 0, a
\* Domain has no wrap matrix and no edge slab for either face, and medium
\* changes no face of that axis beyond the medium of the Domain alone, also
\* with several domains along the axis.
C16_PeriodicHasNoCorrections ==
    periodic # <<>> =>
        /\ n_boundary = 0 => periodic = <<TRUE, TRUE, TRUE>>
        /\ \A d \in Domains :
            /\ \A e \in Faces : periodic[(e \div 2) + 1] => edges[d][e] = <<>>
            /\ periodic[1] =>
                /\ Vwrap[d] = <<>>
                /\ \A sin \in Slots, sout \in Slots :
                       /\ MediumOf(d, sin, sout) = LocalMediumOf(d, sin, sout)
                       /\ \A e \in {0, 1} :
                              HelmholtzBaseMedium(x, edges, sin, sout).es[d][e] = <<>>

\* medium has been called on several domains along a periodic axis, on a slot
\* that is not zero at the faces
C16_Witness ==
    /\ op.name = "medium"
    /\ NDomains > 1
    /\ periodic[1]
    /\ n_boundary > 0
    /\ \A d \in Domains : \E c \in Pols :
           x[d][op.out][0][c] # 0 /\ x[d][op.out][DomainLen - 1][c] # 0

(***************************************************************************)
(* Properties of the steps of HelmholtzBase.medium.                        *)
(***************************************************************************)
\* C21: in a call of HelmholtzBase.medium the local medium runs on no Domain
\* before compute_corrections has run on all, apply_corrections runs on no
\* Domain before the local medium has run on all, every slab handed to an
\* apply_corrections was written by a compute_corrections of this call, and
\* the call returns what the three phases give when each is taken as a whole.
C21_PhasesInOrder ==
    (m_pc # "idle" /\ m_call > 0) =>
        /\ (\E d \in Domains : local_call[d] = m_call) =>
               \A d \in Domains : edge_call[d] = m_call
        /\ (\E d \in Domains : apply_call[d] = m_call) =>
               \A d \in Domains : local_call[d] = m_call
        /\ \A d \in Domains :
               apply_call[d] = m_call => read_calls[d] \subseteq {m_call}
        /\ m_pc = "call" =>
               /\ x = HelmholtzBaseMedium(m_x0, m_e0, m_in, m_out).xs
               /\ edges = HelmholtzBaseMedium(m_x0, m_e0, m_in, m_out).es

\* a second call, in place, has returned on domains with wrap corrections
C21_Witness ==
    /\ m_pc = "call"
    /\ m_call = 2
    /\ m_in = m_out
    /\ \A d \in Domains : read_calls[d] = {2}

\* Domain d was handed its corrections in the current call of medium
Corrected(d) == m_call > 0 /\ apply_call[d] = m_call

\* C22: the wrap correction handed to Domain d at face f is the slab of d
\* itself at the opposite face of the same axis (0<->1, 2<->3, 4<->5), never
\* the slab of another Domain.
C22_WrapIsOwnOppositeSlab ==
    \A d \in Domains : \A f \in Faces :
        /\ WrapSource(d, f).dom = d
        /\ WrapSource(d, f).face \div 2 = f \div 2
        /\ WrapSource(d, f).face # f
        /\ Corrected(d) => m_wraps[d][f] = edges[d][WrapSource(d, f).face]

\* a Domain was handed two different slabs, each at the face opposite to the
\* one it was computed for
C22_Witness ==
    \E d \in Domains :
        /\ Corrected(d)
        /\ m_wraps[d][0] # <<>>
        /\ m_wraps[d][0] # m_wraps[d][1]
        /\ m_wraps[d][0] = edges[d][1]

\* the tile has a Domain next to d across face f, and which one it is
HasNeighbour(d, f) ==
    IF f % 2 = 0 THEN TileIndex(d, f \div 2) > 0
    ELSE TileIndex(d, f \div 2) < TileShape(f \div 2) - 1
Neighbour(d, f) == IF f % 2 = 0 THEN d - 1 ELSE d + 1

\* C23 as stated: the transfer correction handed to Domain d at a face is the
\* slab of the neighbour across that face at its opposite face, and it is
\* absent exactly when there is no neighbour.
C23_TransferAbsentIffNoNeighbour ==
    \A d \in Domains : \A f \in Faces :
        Corrected(d) =>
            IF HasNeighbour(d, f)
            THEN /\ m_xfers[d][f] # <<>>
                 /\ m_xfers[d][f] = edges[Neighbour(d, f)][OppositeFace(f)]
            ELSE m_xfers[d][f] = <<>>

\* C23: the transfer correction handed to Domain d at a face is the slab of
\* the neighbour across that face at its opposite face; it is absent when
\* there is no neighbour (no Domain around the tile is used) and when the
\* Domains keep no slabs along the axis of the face, which is periodic.
C23_TransferIsNeighbourSlab ==
    \A d \in Domains : \A f \in Faces :
        /\ TransferSource(d, f) # <<>> <=> HasNeighbour(d, f)
        /\ HasNeighbour(d, f) =>
               TransferSource(d, f)[1] =
                   [dom |-> Neighbour(d, f), face |-> OppositeFace(f)]
        /\ Corrected(d) =>
               IF HasNeighbour(d, f) /\ ~periodic[(f \div 2) + 1]
               THEN /\ m_xfers[d][f] # <<>>
                    /\ m_xfers[d][f] = edges[Neighbour(d, f)][OppositeFace(f)]
               ELSE m_xfers[d][f] = <<>>

\* the first Domain was handed the low slab of the second at its high face
\* and nothing at its low face
C23_Witness ==
    /\ Corrected(0)
    /\ m_xfers[0][1] # <<>>
    /\ m_xfers[0][1] = edges[1][0]
    /\ m_xfers[0][0] = <<>>

(***************************************************************************)
(* Properties of the primitives called one by one.                         *)
(***************************************************************************)
\* the value of correction list L at face f and component c, 0 where the list
\* holds None
SlabValue(L, f, c) == IF L[f] = <<>> THEN 0 ELSE L[f][1][c]

\* the faces whose edge region holds pixel j
FacesAt(j) == {f \in {0, 1} : EdgePixel(f) = j}

\* sum of wrap[f] - xfer[f] over the faces f of a set
RECURSIVE NetCorrection(_, _, _)
NetCorrection(lists, fs, c) ==
    IF fs = {} THEN 0
    ELSE LET f == CHOOSE g \in fs : TRUE
         IN  SlabValue(lists.wrap, f, c) - SlabValue(lists.xfer, f, c)
                 + NetCorrection(lists, fs \ {f}, c)

C26_InactiveDomainsSkip ==
    [][\A d \in Domains :
          ~active[d] =>
              /\ op'.name \in {"local_medium", "propagator", "mix", "add_source"}
                     => x'[d] = x[d]
              /\ (op'.name = "compute_corrections" /\ op'.d = d) =>
                     \A e \in {0, 1} :
                         edges'[d][e] =
                             IF Vwrap[d] = <<>> THEN edges[d][e]
                             ELSE <<[c \in Pols |->
                                     (Vwrap[d][1] * x[d][op'.a][EdgePixel(e)][c]) % 7]>>
              /\ (op'.name = "apply_corrections" /\ op'.d = d) =>
                     \A j \in Pixels : \A c \in Pols :
                         x'[d][op'.out][j][c] =
                             (x[d][op'.out][j][c]
                                 + NetCorrection(corr', FacesAt(j), c)) % 7]_vars

\* mix was called with a weighted sum that differs from the slot it writes,
\* while the first Domain was inactive
C26_Witness ==
    /\ ~active[0]
    /\ op.name = "mix"
    /\ x[1][op.out] # InitialSlots(1, shift)[op.out]
    /\ x[0] = InitialSlots(0, shift)

(***************************************************************************)
(* Properties of the slot schedule.                                        *)
(***************************************************************************)
\* medium and propagator as maps of a field on all domains
MediumMap(U) ==
    LET XS == [d \in Domains |-> [s \in {0} |-> U[d]]]
    IN  [d \in Domains |-> HelmholtzBaseMedium(XS, edges, 0, 0).xs[d][0]]
PropagatorMap(U) ==
    [d \in Domains |->
        DomainPropagator([s \in {0} |-> U[d]], active[d], propagator_kernel[d],
                         scale, shift, 0, 0)[0]]
SourceField == [d \in Domains |-> IF source[d] = <<>> THEN ZeroField ELSE source[d][1]]

\* the reference iteration: t = medium(u) + s; t = propagator(t);
\* t = medium(u - t)
ReferenceT(U) ==
    LET t1 == MediumMap(U)
        t2 == PropagatorMap([d \in Domains |-> VAdd(t1[d], SourceField[d])])
    IN  MediumMap([d \in Domains |-> VSub(U[d], t2[d])])

\* C25: after the pass of the schedule slot 0 holds u - alpha*t, t being
\* medium(u - propagator(medium(u) + s)) for the u the pass began with, and
\* the inner product the pass returned is that of t with itself.
C25_ScheduleIsReferenceUpdate ==
    (sch_pc # 0 /\ sch_pc > Len(ScheduleOf(sch_alpha))) =>
        LET t == ReferenceT(sch_u)
        IN  /\ \A d \in Domains :
                   sx[d][0] = VSub(sch_u[d], VScale(t[d], sch_alpha))
            /\ sch_r2 =
                   <<HelmholtzBaseInnerProduct(
                         [d \in Domains |-> [s \in {0} |-> t[d]]], 0, 0)>>

\* a pass with a source, on domains with wrap corrections and leftovers in the
\* temporaries, has changed u
C25_Witness ==
    /\ sch_pc = Len(ScheduleOf(sch_alpha)) + 1
    /\ source[0] # <<>>
    /\ Vwrap[0] # <<>>
    /\ sx[0][0] # sch_u[0]
    /\ sch_r2 # <<>>

(***************************************************************************)
(* Properties of the fields read within an iteration.                      *)
(***************************************************************************)
\* C27: inside an iteration, the t_dict that updates the subdomains was
\* computed from the u of every subdomain as it was when the iteration began
\* (updated once in each earlier iteration and not yet in this one), and
\* every subdomain is updated at most once in the iteration.
C27_ReadsStartOfIteration ==
    \A r \in Runs :
        pc[r] \in {"patch", "full", "next", "check"} =>
            /\ \A p \in Patches : t_version[r][p] = executed[r] - 1
            /\ \A p \in Patches :
                   u_version[r][p] \in {executed[r] - 1, executed[r]}

\* in its second iteration the run has updated the first subdomain and not
\* yet the last
C27_Witness ==
    /\ pc[1] = "patch"
    /\ executed[1] = 2
    /\ u_version[1][1] = 2
    /\ u_version[1][NPatches] = 1

(***************************************************************************)
(* Properties of the checks of n_boundary.                                 *)
(***************************************************************************)
\* C28: a configuration that has passed the checks of HelmholtzBase passes the
\* check of every Domain it constructs: no ValueError follows, and along a
\* non-periodic axis n_boundary is at most half the length of every subdomain,
\* the last one included.
C28_BaseCheckCoversDomains ==
    (/\ c_pc \in {"construct", "constructed", "raised"}
     /\ c_ndim = 3 /\ c_ntuple = 3
     /\ ~BaseBoundaryTooLarge(c_nboundary, c_shape, c_n, c_periodic)) =>
        /\ c_error = ""
        /\ ~c_periodic =>
               \A d \in 0..(c_n - 1) :
                   2 * c_nboundary <= Cardinality(IndexBox(d, c_shape, c_n))

(***************************************************************************)
(* Properties of the shapes of the pieces.                                 *)
(***************************************************************************)
\* C29: the piece that partition builds for a sparse array has the shape of
\* the piece it builds for a dense array of the same grid, for every
\* subdomain that is handed a piece, also on a grid that n_domains does not
\* divide.
C29_SparsePieceHasDenseShape ==
    g_op.name = "set_source" =>
        \A d \in 0..(g_ndomains - 1) :
            g_source[d] # <<>> =>
                g_source[d][1].size =
                    ArrayLen(DensePiece(GridPotential(g_shape), d,
                                        g_shape, g_ndomains))

(***************************************************************************)
(* Properties of the scale.                                                *)
(***************************************************************************)
\* C30: calibration divides by no zero: the scale HelmholtzBase computes and
\* hands to its Domains has a denominator other than 0, and so has the scale
\* a stand-alone Domain computes from the same potential, also for a
\* homogeneous medium without wrap correction.
C30_ScaleIsFinite ==
    cal_pc = "calibrated" =>
        /\ base_scale.den # 0
        /\ \A d \in Domains :
               /\ domain_scale[d].den # 0
               /\ StandAloneScale(V_bounds[d]).den # 0

====
